---- MODULE Spec2Model ----
(***************************************************************************)
(* Model of src/src/firmware_interface.py: the SequentBoardInterface       *)
(* driver adapter (discovery, status reads, output writes, emergency       *)
(* stop) and the command dispatcher main(), over an abstract I2C stack of  *)
(* Sequent Microsystems boards.                                            *)
(*                                                                         *)
(* The vendor driver libraries are not part of the repository.  They are   *)
(* modelled as the environment: a call addressed to a board that is not    *)
(* on the bus raises, a call named in the injected fault set raises, a     *)
(* write stores the written value and a read returns the stored value.     *)
(***************************************************************************)
EXTENDS Integers, Sequences, FiniteSets, TLC

VARIABLES
    boards,   \* self.boards: the board types whose driver library imported
    hw,       \* the boards on the bus and the state of their outputs
    pc,       \* "idle" before the invocation, "done" after it, "read" after the
              \* read-back, "info" after a second call for the capability table,
              \* "rescan" after a second scan
    req,      \* the operation last invoked, with its arguments
    result,   \* the value it returned (main: the document printed)
    calls,    \* the driver calls it made, in order, each with its outcome
    hw0,      \* the hardware as it was when the operation started
    exitCode, \* main: the process exit code (-1 while no process has exited)
    stdout,   \* main: the documents printed to standard output
    configs,  \* self.board_configs: the capability table of the interface
    installer, \* installer/install-automata-nexus-rpi5-smart.py: the
               \* SmartInstallerRPi5 object, its widgets and its install thread
    nexusInstaller, \* installer/install-automata-nexus.py: the
               \* AutomataNexusInstaller object, its thread and Tk's callbacks
    uninstaller, \* installer/uninstall-automata-nexus.py: the
               \* AutomataNexusUninstaller object, its thread and what it removed
    hvac,      \* building-automation-v0/scripts/sensor_interface.py: the
               \* HVACDiagnosticInterface object and what its last read returned
    i2c        \* refrigerant-diagnostic-monitor/scripts/sm_4_20ma.py: the
               \* smbus handles opened and open, the calibration registers of
               \* the HAT and what the last call returned

vars == <<boards, hw, pc, req, result, calls, hw0, exitCode, stdout, configs,
          installer, nexusInstaller, uninstaller, hvac, i2c>>
\* the variables of the adapter and its command lines, and those of the
\* other programs of the repository; each specification runs one program
\* and leaves the variables of the others as they are
adapter == <<boards, hw, pc, req, result, calls, hw0, exitCode, stdout, configs>>
programs == <<installer, nexusInstaller, uninstaller, hvac, i2c>>
\* what an action of one program leaves unchanged
notInstaller == <<adapter, nexusInstaller, uninstaller, hvac, i2c>>
notNexusInstaller == <<adapter, installer, uninstaller, hvac, i2c>>
notUninstaller == <<adapter, installer, nexusInstaller, hvac, i2c>>
notHvac == <<adapter, installer, nexusInstaller, uninstaller, i2c>>
notI2c == <<adapter, installer, nexusInstaller, uninstaller, hvac>>
NotRun == "not run"

----------------------------------------------------------------------------
(* Bounds of the model *)

\* at most this many boards are on the bus
MaxBoards == 2
\* sensor_interface.py: at most this many calls of read_single_pressure
MaxReads == 3
\* sm_4_20ma.py: at most this many calls of its functions
MaxCalls == 3

----------------------------------------------------------------------------
(* Program constants *)

\* for stack in range(8)
NumStacks == 8
\* megabas: 'triacs': 4 / range(1, 5)
MegabasTriacs == 4
\* megabas: 'analog_outputs': 4 / range(1, 5)
MegabasAnalogOuts == 4
\* megabas: 'configurable_inputs': 8 / range(1, 9)
MegabasInputs == 8
\* '8relind': 'relays': 8
Relays8 == 8
\* '16relind': 'relays': 16
Relays16 == 16
\* '16univin': 'universal_inputs': 16
UnivInputs == 16
\* '16uout': 'analog_outputs': 16
UnivOutputs == 16
\* voltages are held in tenths of a volt: 10 V
MaxVolt == 100

\* the keys of boards_available, in the order scan_boards probes them
BoardTypes == <<"megabas", "8relind", "16relind", "16univin", "16uout">>
TypeSet == {BoardTypes[i] : i \in 1..Len(BoardTypes)}

----------------------------------------------------------------------------
(* Python values.  A number is held in tenths (7.5 is 75, the int 9 is 90) *)
(* with its type beside it; nan is the float that compares false with      *)
(* everything, itself included.                                            *)

PyInt(k)   == [t |-> "int", n |-> 10 * k]
PyFloat(d) == [t |-> "float", n |-> d]
PyNaN      == [t |-> "nan", n |-> 0]
PyBool(b)  == [t |-> "bool", n |-> IF b THEN 10 ELSE 0]
PyNone     == [t |-> "none", n |-> 0]

\* a < b and a > b on numbers: every comparison with nan is False
PyLt(a, b) == a.t # "nan" /\ b.t # "nan" /\ a.n < b.n
PyGt(a, b) == PyLt(b, a)
\* a == b on numbers
PyEq(a, b) == a.t # "nan" /\ b.t # "nan" /\ a.n = b.n
\* float(value)
ToFloat(v) == IF v.t = "nan" THEN PyNaN ELSE PyFloat(v.n)
\* bool(value): zero is False, everything else (nan included) is True
Truthy(v) == v.t = "nan" \/ v.n # 0
\* int(value) of a finite number truncates toward zero
Trunc(n) == IF n >= 0 THEN n - (n % 10) ELSE -((-n) - ((-n) % 10))
\* int(value) raises ValueError on nan
IntRaises(v) == v.t = "nan"
ToInt(v) == [t |-> "int", n |-> Trunc(v.n)]

\* 1 << k
RECURSIVE Pow2(_)
Pow2(k) == IF k = 0 THEN 1 ELSE 2 * Pow2(k - 1)
\* bool(mask & (1 << (ch - 1)))
BitSet(mask, ch) == (mask \div Pow2(ch - 1)) % 2 = 1

----------------------------------------------------------------------------
(* The bus and the vendor drivers (environment) *)

\* the stack levels that carry a board in the configurations explored:
\* the lowest and the highest address
PopulatedStacks == {0, NumStacks - 1}
\* every type of board may sit at the lowest address; the megabas and the relay
\* boards also at the highest
Slots ==
    (TypeSet \X {0}) \cup ({"megabas", "8relind", "16relind"} \X {NumStacks - 1})

\* the number of switched outputs (a bit mask) and of voltage outputs of a type
MaskBits(type) ==
    CASE type = "megabas"  -> MegabasTriacs
      [] type = "8relind"  -> Relays8
      [] type = "16relind" -> Relays16
      [] OTHER             -> 0
VoltOuts(type) ==
    CASE type = "megabas" -> MegabasAnalogOuts
      [] type = "16uout"  -> UnivOutputs
      [] OTHER            -> 0

\* outputs as left by earlier invocations: alternate channels switched on,
\* channel ch of the voltage outputs at ch/2 volts (capped at 10 V)
\* (the raw word a relay driver hands back may carry bits above the relay
\* count: 261 is 0b1_0000_0101, 65541 is 0b1_0000_0000_0000_0101)
LiveMask(type, stack) ==
    CASE type = "megabas"  -> IF stack = 0 THEN 5 ELSE 10
      [] type = "8relind"  -> IF stack = 0 THEN 261 ELSE 165
      [] type = "16relind" -> IF stack = 0 THEN 42405 ELSE 65541
      [] OTHER             -> 0
LiveVolt(ch) == IF 5 * ch > MaxVolt THEN MaxVolt ELSE 5 * ch
LiveOutputs(type, stack) ==
    [mask |-> LiveMask(type, stack),
     u    |-> [ch \in 1..VoltOuts(type) |-> PyFloat(LiveVolt(ch))]]

\* a driver call: library, function, stack level, channel (0: none), value written
Call(lib, fn, stack, ch, val) ==
    [lib |-> lib, fn |-> fn, stack |-> stack, ch |-> ch, val |-> val]
Read(lib, fn, stack, ch) == Call(lib, fn, stack, ch, PyNone)
Key(c) == <<c.lib, c.fn, c.stack, c.ch>>

WriteFns == {"setTriac", "setUOut", "set", "set_all", "writeU0_10Out", "set_u_out"}
IsWrite(c) == c.fn \in WriteFns

\* the channels a driver function accepts (the drivers check their arguments)
DriverChannelOk(c) ==
    CASE c.fn = "setTriac" -> c.ch \in 1..MegabasTriacs
      [] c.fn = "setUOut" -> c.ch \in 1..MegabasAnalogOuts
      [] c.fn = "set" -> c.ch \in 1..MaskBits(c.lib)
      [] c.fn \in {"writeU0_10Out", "set_u_out"} -> c.ch \in 1..UnivOutputs
      [] OTHER -> TRUE

\* A call raises when no such board answers on the bus, when the fault set
\* names it, when the channel does not exist on the board, or when the
\* voltage written has no register encoding (nan).
Raises(h, faults, c) ==
    \/ <<c.lib, c.stack>> \notin h.present
    \/ Key(c) \in faults
    \/ ~DriverChannelOk(c)
    \/ (c.fn \in {"setUOut", "writeU0_10Out", "set_u_out"} /\ c.val.t = "nan")

SetBit(mask, ch, on) ==
    IF on = BitSet(mask, ch) THEN mask
    ELSE IF on THEN mask + Pow2(ch - 1) ELSE mask - Pow2(ch - 1)

\* the outputs of one board after a write that did not raise
WriteEffect(o, c) ==
    CASE c.fn \in {"setTriac", "set"} ->
            [o EXCEPT !.mask = SetBit(o.mask, c.ch, Truthy(c.val))]
      [] c.fn = "set_all" ->
            [o EXCEPT !.mask = c.val.n \div 10]
      [] c.fn \in {"setUOut", "writeU0_10Out", "set_u_out"} ->
            [o EXCEPT !.u[c.ch] = ToFloat(c.val)]
      [] OTHER -> o

\* the bus after call c returned
Effect(h, c) ==
    IF IsWrite(c)
    THEN [h EXCEPT !.out[<<c.lib, c.stack>>] = WriteEffect(@, c)]
    ELSE h

\* what a read returns: the stored output for the read-back functions, a
\* fixed sample for the inputs and sensors
ReadValue(h, c) ==
    LET o == h.out[<<c.lib, c.stack>>] IN
    CASE c.fn \in {"getTriacs", "get", "get_all"} -> PyInt(o.mask)
      [] c.fn \in {"getUOut", "readU0_10Out", "get_u_out"} -> o.u[c.ch]
      [] OTHER -> PyFloat(c.stack + c.ch)

\* one executed call, as logged
Done(c, ok) == [call |-> c, ok |-> ok]

\* (mutant) every call in a try block of its own: the calls after a raising
\* one are still made
RECURSIVE RunCallsEachTried(_, _, _, _)
RunCallsEachTried(h, faults, cs, log) ==
    IF cs = <<>> THEN [hw |-> h, log |-> log, raised |-> FALSE]
    ELSE IF Raises(h, faults, Head(cs))
         THEN [RunCallsEachTried(h, faults, Tail(cs), Append(log, Done(Head(cs), FALSE)))
                  EXCEPT !.raised = TRUE]
         ELSE RunCallsEachTried(Effect(h, Head(cs)), faults, Tail(cs),
                                Append(log, Done(Head(cs), TRUE)))

\* A try block: the calls cs are made in order until one raises.
RECURSIVE RunCalls(_, _, _, _)
RunCalls(h, faults, cs, log) ==
    IF cs = <<>> THEN [hw |-> h, log |-> log, raised |-> FALSE]
    ELSE IF Raises(h, faults, Head(cs))
         THEN [hw |-> h, log |-> Append(log, Done(Head(cs), FALSE)), raised |-> TRUE]
         ELSE RunCalls(Effect(h, Head(cs)), faults, Tail(cs),
                       Append(log, Done(Head(cs), TRUE)))

\* A try block of reads that may be long: the bus is left as it was, and
\* whether a read raises does not depend on the reads made before it, so the
\* log is the reads up to the first that raises.
ReadsUntilRaise(h, faults, reads) ==
    LET bad == {i \in DOMAIN reads : Raises(h, faults, reads[i])}
        n   == IF bad = {} THEN Len(reads) ELSE CHOOSE i \in bad : \A j \in bad : i <= j
    IN [hw     |-> h,
        log    |-> [i \in 1..n |-> Done(reads[i], ~Raises(h, faults, reads[i]))],
        raised |-> bad # {}]
\* (reads is bound to the sequence, so that it is built once)
RunReads(h, faults, cs) ==
    CHOOSE r \in {ReadsUntilRaise(h, faults, reads) : reads \in {cs}} : TRUE

----------------------------------------------------------------------------
(* SequentBoardInterface *)

\* (mutant) the table before the review its comments speak of: the universal
\* input board also declared with analog outputs
board_configs_unreviewed ==
    [megabas    |-> [triacs |-> MegabasTriacs, analog_outputs |-> MegabasAnalogOuts,
                     configurable_inputs |-> MegabasInputs],
     relind8    |-> [relays |-> Relays8],
     relind16   |-> [relays |-> Relays16],
     univin16   |-> [universal_inputs |-> UnivInputs, analog_outputs |-> UnivOutputs],
     uout16     |-> [analog_outputs |-> UnivOutputs]]

\* the channel counts self.board_configs is given by __init__
board_configs ==
    [megabas    |-> [triacs |-> MegabasTriacs, analog_outputs |-> MegabasAnalogOuts,
                     configurable_inputs |-> MegabasInputs],
     relind8    |-> [relays |-> Relays8],
     relind16   |-> [relays |-> Relays16],
     univin16   |-> [universal_inputs |-> UnivInputs],
     uout16     |-> [analog_outputs |-> UnivOutputs]]

ConfigKey(type) ==
    CASE type = "megabas"  -> "megabas"
      [] type = "8relind"  -> "relind8"
      [] type = "16relind" -> "relind16"
      [] type = "16univin" -> "univin16"
      [] type = "16uout"   -> "uout16"

\* (mutant) a relay board probed by switching its relays off
ProbeBySwitchingOff(type, stack) ==
    CASE type = "megabas"  -> Read("megabas", "getVer", stack, 0)
      [] type = "8relind"  -> Call("8relind", "set_all", stack, 0, PyInt(0))
      [] type = "16relind" -> Call("16relind", "set_all", stack, 0, PyInt(0))
      [] type = "16univin" -> Read("16univin", "readU0_10In", stack, 1)
      [] type = "16uout"   -> Read("16uout", "readU0_10Out", stack, 1)

\* the probe scan_boards issues for a board type
Probe(type, stack) ==
    CASE type = "megabas"  -> Read("megabas", "getVer", stack, 0)
      [] type = "8relind"  -> Read("8relind", "get", stack, 0)
      [] type = "16relind" -> Read("16relind", "get", stack, 0)
      [] type = "16univin" -> Read("16univin", "readU0_10In", stack, 1)
      [] type = "16uout"   -> Read("16uout", "readU0_10Out", stack, 1)

\* one entry of found_boards
BoardEntry(h, type, stack) ==
    [type |-> type, stack |-> stack,
     version |-> IF type = "megabas" THEN ReadValue(h, Probe(type, stack))
                 ELSE [t |-> "str", n |-> 0],
     config |-> configs[ConfigKey(type)]]

\* (mutant) first responder wins: after a board answered at a stack level
\* the other types are not probed there
RECURSIVE ScanFirstWins(_, _, _, _, _, _)
ScanFirstWins(b, h, faults, k, found, log) ==
    IF k >= NumStacks * Len(BoardTypes) THEN [list |-> found, log |-> log]
    ELSE LET stack == k \div Len(BoardTypes)
             type  == BoardTypes[(k % Len(BoardTypes)) + 1]
             c     == Probe(type, stack)
         IN IF type \notin b
            THEN ScanFirstWins(b, h, faults, k + 1, found, log)
            ELSE IF Raises(h, faults, c)
                 THEN ScanFirstWins(b, h, faults, k + 1, found, Append(log, Done(c, FALSE)))
                 ELSE ScanFirstWins(b, h, faults, (stack + 1) * Len(BoardTypes),
                                    Append(found, BoardEntry(h, type, stack)),
                                    Append(log, Done(c, TRUE)))

\* (mutant) one try block around the whole loop: the first probe that raises
\* ends the scan
RECURSIVE ScanAbortOnRaise(_, _, _, _, _, _)
ScanAbortOnRaise(b, h, faults, k, found, log) ==
    IF k = NumStacks * Len(BoardTypes) THEN [list |-> found, log |-> log]
    ELSE LET stack == k \div Len(BoardTypes)
             type  == BoardTypes[(k % Len(BoardTypes)) + 1]
             c     == Probe(type, stack)
         IN IF type \notin b
            THEN ScanAbortOnRaise(b, h, faults, k + 1, found, log)
            ELSE IF Raises(h, faults, c)
                 THEN [list |-> found, log |-> Append(log, Done(c, FALSE))]
                 ELSE ScanAbortOnRaise(b, h, faults, k + 1,
                                       Append(found, BoardEntry(h, type, stack)),
                                       Append(log, Done(c, TRUE)))

\* (mutant) the loops nested the other way round: for each board type, every
\* stack level
RECURSIVE ScanTypeMajor(_, _, _, _, _, _)
ScanTypeMajor(b, h, faults, k, found, log) ==
    IF k = NumStacks * Len(BoardTypes) THEN [list |-> found, log |-> log]
    ELSE LET stack == k % NumStacks
             type  == BoardTypes[(k \div NumStacks) + 1]
             c     == Probe(type, stack)
         IN IF type \notin b
            THEN ScanTypeMajor(b, h, faults, k + 1, found, log)
            ELSE IF Raises(h, faults, c)
                 THEN ScanTypeMajor(b, h, faults, k + 1, found, Append(log, Done(c, FALSE)))
                 ELSE ScanTypeMajor(b, h, faults, k + 1,
                                    Append(found, BoardEntry(h, type, stack)),
                                    Append(log, Done(c, TRUE)))

\* scan_boards: stack-major, type-minor; position k of the double loop is
\* stack k \div 5, type k % 5.  Each probe is its own try block; a probe
\* that raises appends nothing and the loop goes on.
RECURSIVE ScanFrom(_, _, _, _, _, _)
ScanFrom(b, h, faults, k, found, log) ==
    IF k = NumStacks * Len(BoardTypes) THEN [list |-> found, log |-> log]
    ELSE LET stack == k \div Len(BoardTypes)
             type  == BoardTypes[(k % Len(BoardTypes)) + 1]
             c     == Probe(type, stack)
         IN IF type \notin b
            THEN ScanFrom(b, h, faults, k + 1, found, log)
            ELSE IF Raises(h, faults, c)
                 THEN ScanFrom(b, h, faults, k + 1, found, Append(log, Done(c, FALSE)))
                 ELSE ScanFrom(b, h, faults, k + 1,
                               Append(found, BoardEntry(h, type, stack)),
                               Append(log, Done(c, TRUE)))

scan_boards(b, h, faults) == ScanFrom(b, h, faults, 0, <<>>, <<>>)


\* an error message: the format string and the value interpolated into it
Msg(fmt, arg) == [fmt |-> fmt, arg |-> arg]
ErrorResult(fmt, arg) == [error |-> Msg(fmt, arg)]
\* str(e) of an exception raised by a driver call or a conversion
ExcResult == ErrorResult("str(e)", PyNone)
IsError(r) == "error" \in DOMAIN r

\* what an operation hands back: its return value, the calls it made, the
\* bus afterwards, and whether an exception left it instead of a return
Ret(val, log, h) == [val |-> val, log |-> log, hw |-> h, exc |-> FALSE, visited |-> <<>>]

\* (mutant) a try block without its except clause: the exception leaves the
\* method
NoExcept(r, val) ==
    IF r.raised
    THEN [val |-> ExcResult, log |-> r.log, hw |-> r.hw, exc |-> TRUE, visited |-> <<>>]
    ELSE Ret(val, r.log, r.hw)

\* try: <calls> ... except Exception as e: return {'error': str(e)}
\* r is the outcome of the calls of the try block, val the value returned
\* when none raised
TryExcept(r, val) ==
    IF r.raised THEN Ret(ExcResult, r.log, r.hw) ELSE Ret(val, r.log, r.hw)

\* ------------------------------------------------------------------------
\* get_megabas_status

InputFns   == <<"getUIn", "getRIn1K", "getRIn10K">>
ContactFns == <<"getContactCh", "getContactCounter", "getContactCountEdge">>
SensorFns  == <<"getInVolt", "getRaspVolt", "getCpuTemp">>
WdtFns     == <<"wdtGetPeriod", "wdtGetDefaultPeriod", "wdtGetOffInterval",
                "wdtGetResetCount">>

\* fns called for each of the channels 1..n, channel-major
PerChannel(fns, n, stack) ==
    [i \in 1..(n * Len(fns)) |->
        Read("megabas", fns[((i - 1) % Len(fns)) + 1], stack, ((i - 1) \div Len(fns)) + 1)]

\* the reads of the outer try block, in program order
StatusReads(stack) ==
    <<Read("megabas", "getVer", stack, 0), Read("megabas", "getTriacs", stack, 0)>>
    \o [ch \in 1..MegabasAnalogOuts |-> Read("megabas", "getUOut", stack, ch)]
    \o PerChannel(InputFns, MegabasInputs, stack)
    \o <<Read("megabas", "getContact", stack, 0)>>
    \o PerChannel(ContactFns, MegabasInputs, stack)
    \o [i \in 1..Len(SensorFns) |-> Read("megabas", SensorFns[i], stack, 0)]
RtcReads(stack) == <<Read("megabas", "rtcGet", stack, 0)>>
WdtReads(stack) == [i \in 1..Len(WdtFns) |-> Read("megabas", WdtFns[i], stack, 0)]

\* status['rtc'] and status['watchdog'] start as None and {} and keep those
\* values when the try block that fills them raises
StatusTriacs(h, stack) ==
    LET triacs_state == ReadValue(h, Read("megabas", "getTriacs", stack, 0)).n \div 10
    IN [ch \in 1..MegabasTriacs |-> BitSet(triacs_state, ch)]

get_megabas_status(b, h, faults, stack) ==
    IF "megabas" \notin b
    THEN Ret(ErrorResult("MegaBAS library not available", PyNone), <<>>, h)
    ELSE LET main == RunCalls(h, faults, StatusReads(stack), <<>>)
             rtc  == RunCalls(h, faults, RtcReads(stack), main.log)
             wdt  == RunCalls(h, faults, WdtReads(stack), rtc.log)
             rd(fn, ch) == ReadValue(h, Read("megabas", fn, stack, ch))
             status ==
               [type |-> "megabas", stack |-> stack,
                firmware |-> rd("getVer", 0),
                triacs |-> StatusTriacs(h, stack),
                analog_outputs |-> [ch \in 1..MegabasAnalogOuts |-> rd("getUOut", ch)],
                configurable_inputs |->
                    [ch \in 1..MegabasInputs |->
                        [i \in 1..Len(InputFns) |-> rd(InputFns[i], ch)]],
                dry_contacts |->
                    [ch \in 1..MegabasInputs |->
                        [i \in 1..Len(ContactFns) |-> rd(ContactFns[i], ch)]],
                sensors |-> [i \in 1..Len(SensorFns) |-> rd(SensorFns[i], 0)],
                rtc |-> IF rtc.raised THEN PyNone ELSE rd("rtcGet", 0),
                watchdog |-> IF wdt.raised THEN <<>>
                             ELSE [i \in 1..Len(WdtFns) |-> rd(WdtFns[i], 0)]]
         IN IF main.raised
            THEN Ret(ExcResult, main.log, h)
            ELSE Ret(status, wdt.log, h)

\* ------------------------------------------------------------------------
\* set_megabas_output

\* if channel < 1 or channel > 4
BadAnalogChannel(channel) == channel < 1 \/ channel > MegabasAnalogOuts
BadTriacChannel(channel) == channel < 1 \/ channel > MegabasTriacs
\* if value < 0 or value > 10
BadVoltage(value) == PyLt(value, PyInt(0)) \/ PyGt(value, PyFloat(MaxVolt))
\* (mutant) the voltage converted with int() as the triac state is
AnalogWriteInt(stack, channel, value) ==
    Call("megabas", "setUOut", stack, channel, ToInt(value))
\* mb.setUOut(stack, channel, float(value))
AnalogWrite(stack, channel, value) ==
    Call("megabas", "setUOut", stack, channel, ToFloat(value))
\* mb.setTriac(stack, channel, int(value))
TriacWrite(stack, channel, value) ==
    Call("megabas", "setTriac", stack, channel, ToInt(value))

set_megabas_output(b, h, faults, stack, output_type, channel, value) ==
    IF "megabas" \notin b
    THEN Ret(ErrorResult("MegaBAS library not available", PyNone), <<>>, h)
    ELSE IF output_type = "analog"
    THEN IF BadAnalogChannel(channel)
         THEN Ret(ErrorResult("Invalid analog channel: {channel}. MegaBAS has 4 analog outputs (1-4)",
                              PyInt(channel)), <<>>, h)
         ELSE IF BadVoltage(value)
         THEN Ret(ErrorResult("Invalid voltage: {value}. Range is 0-10V", value), <<>>, h)
         ELSE TryExcept(
                RunCalls(h, faults, <<AnalogWrite(stack, channel, value)>>, <<>>),
                [success |-> TRUE, channel |-> channel, value |-> value])
    ELSE IF output_type = "triac"
    THEN IF BadTriacChannel(channel)
         THEN Ret(ErrorResult("Invalid triac channel: {channel}. MegaBAS has 4 triacs (1-4)",
                              PyInt(channel)), <<>>, h)
         ELSE IF IntRaises(value)
         THEN Ret(ExcResult, <<>>, h)
         ELSE TryExcept(
                RunCalls(h, faults, <<TriacWrite(stack, channel, value)>>, <<>>),
                [success |-> TRUE, channel |-> channel, value |-> PyBool(Truthy(value))])
    ELSE Ret(ErrorResult("Unknown output type: {output_type}. Use analog or triac", PyNone), <<>>, h)

\* ------------------------------------------------------------------------
\* get_relay_status

\* (mutant) the loop testing bit ch instead of bit ch - 1
RelayFlagsShifted(relay_state, n) == [ch \in 1..n |-> BitSet(relay_state, ch + 1)]

\* status['relays'] after the loop over range(1, n + 1)
RelayFlags(relay_state, n) == [ch \in 1..n |-> BitSet(relay_state, ch)]

get_relay_status(b, h, faults, board_type, stack) ==
    IF board_type \notin b
    THEN Ret(ErrorResult("{board_type} library not available", PyNone), <<>>, h)
    ELSE IF board_type \in {"8relind", "16relind"}
    THEN LET c == Read(board_type, "get", stack, 0)
             n == IF board_type = "8relind" THEN Relays8 ELSE Relays16
         IN TryExcept(
              RunCalls(h, faults, <<c>>, <<>>),
              [type |-> board_type, stack |-> stack,
               relays |-> IF Raises(h, faults, c) THEN <<>>
                          ELSE RelayFlags(ReadValue(h, c).n \div 10, n)])
    ELSE Ret([type |-> board_type, stack |-> stack, relays |-> <<>>], <<>>, h)

\* ------------------------------------------------------------------------
\* set_relay

\* (mutant) every relay board checked against the 16 channels of the largest
BadRelayChannel16(board_type, channel) == channel < 1 \/ channel > Relays16

\* if channel < 1 or channel > 8 (8relind), channel > 16 (16relind)
BadRelayChannel(board_type, channel) ==
    \/ board_type = "8relind" /\ (channel < 1 \/ channel > Relays8)
    \/ board_type = "16relind" /\ (channel < 1 \/ channel > Relays16)

set_relay(b, h, faults, board_type, stack, channel, state) ==
    IF board_type \notin b
    THEN Ret(ErrorResult("{board_type} library not available", PyNone), <<>>, h)
    ELSE IF board_type = "8relind" /\ BadRelayChannel(board_type, channel)
    THEN Ret(ErrorResult("Invalid relay channel: {channel}. 8relind has 8 relays (1-8)",
                         PyInt(channel)), <<>>, h)
    ELSE IF board_type = "16relind" /\ BadRelayChannel(board_type, channel)
    THEN Ret(ErrorResult("Invalid relay channel: {channel}. 16relind has 16 relays (1-16)",
                         PyInt(channel)), <<>>, h)
    ELSE TryExcept(
           RunCalls(h, faults,
                    IF board_type \in {"8relind", "16relind"}
                    THEN <<Call(board_type, "set", stack, channel, PyInt(IF state THEN 1 ELSE 0))>>
                    ELSE <<>>,
                    <<>>),
           [success |-> TRUE, channel |-> channel, state |-> state])

\* ------------------------------------------------------------------------
\* get_universal_input

\* has1k, has10k: hasattr(lib16univin, 'readR1kIn'), hasattr(.., 'readR10kIn')
get_universal_input(b, h, faults, has1k, has10k, stack, channel) ==
    IF "16univin" \notin b
    THEN Ret(ErrorResult("16univin library not available", PyNone), <<>>, h)
    ELSE IF channel < 1 \/ channel > UnivInputs
    THEN Ret(ErrorResult("Invalid channel: {channel}. 16univin has 16 inputs (1-16)",
                         PyInt(channel)), <<>>, h)
    ELSE LET rd(fn) == Read("16univin", fn, stack, channel)
         IN TryExcept(
              RunCalls(h, faults,
                       <<rd("readU0_10In")>>
                       \o (IF has1k THEN <<rd("readR1kIn")>> ELSE <<>>)
                       \o (IF has10k THEN <<rd("readR10kIn")>> ELSE <<>>),
                       <<>>),
              [success |-> TRUE, channel |-> channel,
               voltage |-> ReadValue(h, rd("readU0_10In")),
               resistance_1k |-> IF has1k THEN ReadValue(h, rd("readR1kIn")) ELSE PyNone,
               resistance_10k |-> IF has10k THEN ReadValue(h, rd("readR10kIn")) ELSE PyNone,
               type |-> "Universal Input"])

\* ------------------------------------------------------------------------
\* set_universal_output

set_universal_output(b, h, faults, stack, channel, value) ==
    IF "16uout" \notin b
    THEN Ret(ErrorResult("16uout library not available", PyNone), <<>>, h)
    ELSE IF channel < 1 \/ channel > UnivOutputs
    THEN Ret(ErrorResult("Invalid channel: {channel}. 16uout has 16 outputs (1-16)",
                         PyInt(channel)), <<>>, h)
    ELSE IF BadVoltage(value)
    THEN Ret(ErrorResult("Invalid voltage: {value}. Range is 0-10V", value), <<>>, h)
    ELSE TryExcept(
           RunCalls(h, faults, <<Call("16uout", "writeU0_10Out", stack, channel, value)>>, <<>>),
           [success |-> TRUE, channel |-> channel, value |-> value, type |-> "0-10V Output"])

\* ------------------------------------------------------------------------
\* emergency_stop

Write0(lib, fn, stack, ch) == Call(lib, fn, stack, ch, PyInt(0))

\* (mutant) the megabas branch without its loop over the analog outputs
StopCallsTriacsOnly(type, stack) ==
    CASE type = "megabas" ->
            [ch \in 1..MegabasTriacs |-> Write0("megabas", "setTriac", stack, ch)]
      [] type \in {"8relind", "16relind"} ->
            <<Write0(type, "set_all", stack, 0)>>
      [] type = "16uout" ->
            [ch \in 1..UnivOutputs |-> Write0("16uout", "writeU0_10Out", stack, ch)]
      [] OTHER -> <<>>

\* the writes of the try block of one discovered board
StopCalls(type, stack) ==
    CASE type = "megabas" ->
            [ch \in 1..MegabasTriacs |-> Write0("megabas", "setTriac", stack, ch)]
            \o [ch \in 1..MegabasAnalogOuts |-> Write0("megabas", "setUOut", stack, ch)]
      [] type \in {"8relind", "16relind"} ->
            <<Write0(type, "set_all", stack, 0)>>
      [] type = "16uout" ->
            [ch \in 1..UnivOutputs |-> Write0("16uout", "writeU0_10Out", stack, ch)]
      [] OTHER -> <<>>

BoardId(type, stack) == <<type, stack>>

\* (mutant) a board whose stop raised leaves no entry
StopEntrySilent(type, stack, raised) ==
    IF raised THEN <<>>
    ELSE IF type \in {"megabas", "8relind", "16relind", "16uout"}
         THEN <<[board |-> BoardId(type, stack), status |-> "stopped"]>>
         ELSE <<>>

\* what the body of the loop appends to results for one board: an error
\* entry when a write raised, a 'stopped' entry when the type has a branch,
\* nothing for a 16univin (input only, no branch)
StopEntry(type, stack, raised) ==
    IF raised THEN <<[board |-> BoardId(type, stack), error |-> Msg("str(e)", PyNone)]>>
    ELSE IF type \in {"megabas", "8relind", "16relind", "16uout"}
         THEN <<[board |-> BoardId(type, stack), status |-> "stopped"]>>
         ELSE <<>>

\* for board in boards: from position i of the scanned list
RECURSIVE StopFrom(_, _, _, _, _, _, _)
StopFrom(list, i, h, faults, results, log, visited) ==
    IF i > Len(list)
    THEN [val |-> [emergency_stop |-> TRUE, results |-> results],
          log |-> log, hw |-> h, exc |-> FALSE, visited |-> visited]
    ELSE LET type  == list[i].type
             stack == list[i].stack
             r     == RunCalls(h, faults, StopCalls(type, stack), log)
         IN StopFrom(list, i + 1, r.hw, faults,
                     results \o StopEntry(type, stack, r.raised),
                     r.log, Append(visited, BoardId(type, stack)))

\* (mutant) the stop of a megabas at address 0 without asking discovery
emergency_stop_unscanned(b, h, faults) ==
    StopFrom(<<[type |-> "megabas", stack |-> 0]>>, 1, h, faults, <<>>, <<>>, <<>>)

emergency_stop(b, h, faults) ==
    LET s == scan_boards(b, h, faults)
    IN StopFrom(s.list, 1, h, faults, <<>>, s.log, <<>>)

\* get_board_info
get_board_info == [boards |-> configs]

----------------------------------------------------------------------------
(* Initial states *)

\* which driver libraries imported: all, none, the relay boards' only
BoardsChoices ==
    {TypeSet, {}, {"8relind", "16relind"}}

Buses ==
    {[present |-> P, out |-> [s \in P |-> LiveOutputs(s[1], s[2])]] :
        P \in {Q \in SUBSET Slots : Cardinality(Q) <= MaxBoards}}

Init ==
    /\ boards \in BoardsChoices
    /\ hw \in Buses
    /\ pc = "idle"
    /\ req = [op |-> "none", via |-> "none"]
    /\ result = [none |-> TRUE]
    /\ calls = <<>>
    /\ hw0 = hw
    /\ configs = board_configs
    /\ exitCode = -1
    /\ stdout = <<>>
    /\ installer = NotRun
    /\ nexusInstaller = NotRun
    /\ uninstaller = NotRun
    /\ hvac = NotRun
    /\ i2c = NotRun

----------------------------------------------------------------------------
(* Operations *)

StackArgs == PopulatedStacks
\* voltages offered: -0.1, 0.0, 7.5, 10.0, 10.1 and nan; switch states 0 and 1
VoltArgs == {PyFloat(-1), PyFloat(0), PyFloat(75), PyFloat(MaxVolt), PyFloat(MaxVolt + 1), PyNaN}
IntArgs == {PyInt(0), PyInt(1)}

\* the faults injected into one operation: none, or one of the calls in cs
\* (made to a board that is on the bus) raises
OneFault(h, cs) ==
    {{}} \cup {{Key(cs[i])} : i \in {j \in 1..Len(cs) : <<cs[j].lib, cs[j].stack>> \in h.present}}

\* what an invocation leaves: the request, the value returned, the calls
\* made, the bus after them, the exit code and the documents printed
Finished(r, o, code, out) ==
    /\ pc' = "done"
    /\ req' = r
    /\ result' = o.val
    /\ calls' = o.log
    /\ hw' = o.hw
    /\ hw0' = hw
    /\ exitCode' = code
    /\ stdout' = out
    /\ UNCHANGED <<boards, configs, programs>>

\* a method of SequentBoardInterface called by a program that imported the
\* module: nothing is printed and no process exits
Returned(r, o) ==
    Finished(r @@ [exc |-> o.exc, visited |-> o.visited], o, exitCode, stdout)

Method(name, faults) == [op |-> name, via |-> "api", faults |-> faults]

ScanBoards ==
    /\ pc = "idle"
    /\ \E faults \in OneFault(hw, [i \in 1..Len(BoardTypes) |-> Probe(BoardTypes[i], 0)]) :
         LET s == scan_boards(boards, hw, faults)
         IN Returned(Method("scan_boards", faults), Ret([list |-> s.list], s.log, hw))

GetBoardInfo ==
    /\ pc = "idle"
    /\ Returned(Method("get_board_info", {}), Ret(get_board_info, <<>>, hw))

\* the reads of get_megabas_status that are made to raise: those of the
\* board as a whole and of its first channel, one at a time, and the clock
\* read together with a watchdog read
FirstChannel(c) == c.ch <= 1
StatusFaults(h, stack) ==
    OneFault(h, SelectSeq(StatusReads(stack), FirstChannel)
                \o RtcReads(stack) \o WdtReads(stack))
    \cup {{Key(RtcReads(stack)[1]), Key(WdtReads(stack)[i])} : i \in 1..Len(WdtFns)}

GetMegabasStatus ==
    /\ pc = "idle"
    /\ \E stack \in StackArgs :
       \E faults \in StatusFaults(hw, stack) :
         Returned(Method("get_megabas_status", faults) @@ [stack |-> stack],
                  get_megabas_status(boards, hw, faults, stack))

\* the (output_type, channel, value) triples offered to set_megabas_output
OutputArgs ==
    ({"analog"} \X {0, 1, 2, MegabasAnalogOuts, MegabasAnalogOuts + 1} \X VoltArgs)
    \cup ({"triac"} \X {0, 1, MegabasTriacs, MegabasTriacs + 1} \X (IntArgs \cup {PyInt(2)}))
    \cup {<<"pwm", 1, PyInt(1)>>}

SetMegabasOutput ==
    /\ pc = "idle"
    /\ \E stack \in StackArgs, a \in OutputArgs, fail \in BOOLEAN :
         LET faults == IF fail THEN {<<"megabas", fn, stack, a[2]>> : fn \in WriteFns} ELSE {}
         IN Returned(Method("set_megabas_output", faults)
                        @@ [stack |-> stack, output_type |-> a[1],
                            channel |-> a[2], value |-> a[3]],
                     set_megabas_output(boards, hw, faults, stack, a[1], a[2], a[3]))

GetRelayStatus ==
    /\ pc = "idle"
    /\ \E board_type \in TypeSet, stack \in StackArgs, fail \in BOOLEAN :
         LET faults == IF fail THEN {<<board_type, "get", stack, 0>>} ELSE {}
         IN Returned(Method("get_relay_status", faults)
                        @@ [board_type |-> board_type, stack |-> stack],
                     get_relay_status(boards, hw, faults, board_type, stack))

\* (state, whether the write raises)
RelayArgs == {<<TRUE, FALSE>>, <<FALSE, FALSE>>, <<TRUE, TRUE>>}

SetRelay ==
    /\ pc = "idle"
    /\ \E board_type \in {"8relind", "16relind", "megabas"}, stack \in StackArgs,
          channel \in {0, 1, Relays8, Relays8 + 1, Relays16, Relays16 + 1},
          a \in RelayArgs :
         LET faults == IF a[2] THEN {<<board_type, "set", stack, channel>>} ELSE {}
         IN Returned(Method("set_relay", faults)
                        @@ [board_type |-> board_type, stack |-> stack,
                            channel |-> channel, state |-> a[1]],
                     set_relay(boards, hw, faults, board_type, stack, channel, a[1]))

\* (hasattr readR1kIn, hasattr readR10kIn, the function that raises)
UnivInArgs ==
    ({<<TRUE, TRUE>>} \X {"none", "readU0_10In", "readR10kIn"})
    \cup ({<<FALSE, FALSE>>, <<TRUE, FALSE>>} \X {"none"})

GetUniversalInput ==
    /\ pc = "idle"
    /\ \E stack \in StackArgs, channel \in {0, 1, UnivInputs, UnivInputs + 1},
          a \in UnivInArgs :
         LET faults == {<<"16univin", a[2], stack, channel>>}
         IN Returned(Method("get_universal_input", faults)
                        @@ [stack |-> stack, channel |-> channel],
                     get_universal_input(boards, hw, faults, a[1][1], a[1][2], stack, channel))

SetUniversalOutput ==
    /\ pc = "idle"
    /\ \E stack \in StackArgs, channel \in {0, 1, UnivOutputs, UnivOutputs + 1},
          value \in VoltArgs \cup {PyInt(1)}, fail \in BOOLEAN :
         LET faults == IF fail THEN {<<"16uout", "writeU0_10Out", stack, channel>>} ELSE {}
         IN Returned(Method("set_universal_output", faults)
                        @@ [stack |-> stack, channel |-> channel, value |-> value],
                     set_universal_output(boards, hw, faults, stack, channel, value))

\* the faults of an emergency stop: on each board, at most one of its writes
\* raises (the writes after a raising one are never made)
RECURSIVE StopFaults(_)
StopFaults(bs) ==
    IF bs = {} THEN {{}}
    ELSE LET s  == CHOOSE x \in bs : TRUE
             cs == StopCalls(s[1], s[2])
         IN {f \cup g : f \in StopFaults(bs \ {s}),
                        g \in {{}} \cup {{Key(cs[i])} : i \in 1..Len(cs)}}

EmergencyStop ==
    /\ pc = "idle"
    /\ \E faults \in StopFaults(hw.present) :
         LET o == emergency_stop(boards, hw, faults)
         IN Returned(Method("emergency_stop", faults), o)

----------------------------------------------------------------------------
(* The command dispatcher *)

\* the argument strings offered, and what int() and float() make of them
IntLits == {"0", "1", "2", "5", "7", "8", "9", "17"}
IntOf(s) ==
    CASE s = "0" -> 0 [] s = "1" -> 1 [] s = "2" -> 2 [] s = "5" -> 5
      [] s = "7" -> 7 [] s = "8" -> 8 [] s = "9" -> 9 [] s = "17" -> 17
\* int(s) raises ValueError unless s is an integer literal
IntParses(s) == s \in IntLits
\* float(s) accepts the integer literals, decimals and "nan"
FloatParses(s) == s \in IntLits \cup {"7.5", "10.5", "-0.5", "nan"}
FloatOf(s) ==
    CASE s \in IntLits -> PyFloat(10 * IntOf(s))
      [] s = "7.5"  -> PyFloat(75)
      [] s = "10.5" -> PyFloat(105)
      [] s = "-0.5" -> PyFloat(-5)
      [] s = "nan"  -> PyNaN

Commands == <<"scan", "status", "set_output", "set_relay",
              "read_univin", "set_univout", "emergency_stop", "info">>

\* (mutant) the chain written with `if` where main has `elif`: the final
\* else branch also runs after an operation and overwrites its result
DispatchedOverwritten(op, o) ==
    [op |-> op,
     out |-> [o EXCEPT !.val = ErrorResult("Unknown command: {command}", PyNone)],
     raised |-> o.exc]

\* the outcome of main's try block: the adapter operation invoked (op, "none"
\* when none was), what it handed back, and whether an exception reached
\* main's except clause (raised by a conversion or left by the operation)
Dispatched(op, o) == [op |-> op, out |-> o, raised |-> o.exc]
NotDispatched(val, h) == [op |-> "none", out |-> Ret(val, <<>>, h), raised |-> FALSE]
\* (mutant) the ValueError of a conversion turned into a result, not raised
ParseErrorAssigned(h) == NotDispatched(ExcResult, h)
\* int(...) or float(...) raised ValueError inside main's try block
ParseError(h) == [op |-> "none", out |-> Ret(ExcResult, <<>>, h), raised |-> TRUE]
\* (mutant) a usage error raised instead of assigned to result
UsageRaised(text, h) ==
    [op |-> "none", out |-> Ret(ErrorResult(text, PyNone), <<>>, h), raised |-> TRUE]
\* result = {'error': 'Usage: ...'} (also: unknown board type, unknown command)
Usage(text, h) == NotDispatched(ErrorResult(text, PyNone), h)

\* the if/elif chain of main; argv is sys.argv[1:], so len(sys.argv) is
\* Len(argv) + 1
Dispatch(b, h, faults, argv) ==
    LET command == argv[1] IN
    CASE command = "scan" ->
            LET s == scan_boards(b, h, faults)
            IN Dispatched("scan_boards", Ret([list |-> s.list], s.log, h))
      [] command = "info" ->
            Dispatched("get_board_info", Ret(get_board_info, <<>>, h))
      [] command = "status" ->
            IF Len(argv) + 1 < 4 THEN Usage("Usage: status <board_type> <stack>", h)
            ELSE IF ~IntParses(argv[3]) THEN ParseError(h)
            ELSE IF argv[2] = "megabas"
                 THEN Dispatched("get_megabas_status",
                                 get_megabas_status(b, h, faults, IntOf(argv[3])))
            ELSE IF argv[2] \in {"8relind", "16relind"}
                 THEN Dispatched("get_relay_status",
                                 get_relay_status(b, h, faults, argv[2], IntOf(argv[3])))
            ELSE Usage("Unknown board type: {board_type}", h)
      [] command = "set_output" ->
            IF Len(argv) + 1 < 6
            THEN Usage("Usage: set_output <stack> <type> <channel> <value>", h)
            ELSE IF ~IntParses(argv[2]) \/ ~IntParses(argv[4]) THEN ParseError(h)
            ELSE IF argv[3] = "analog" /\ ~FloatParses(argv[5]) THEN ParseError(h)
            ELSE IF argv[3] # "analog" /\ ~IntParses(argv[5]) THEN ParseError(h)
            ELSE Dispatched("set_megabas_output",
                            set_megabas_output(b, h, faults, IntOf(argv[2]), argv[3],
                                IntOf(argv[4]),
                                IF argv[3] = "analog" THEN FloatOf(argv[5])
                                ELSE PyInt(IntOf(argv[5]))))
      [] command = "set_relay" ->
            IF Len(argv) + 1 < 6
            THEN Usage("Usage: set_relay <board_type> <stack> <channel> <state>", h)
            ELSE IF ~IntParses(argv[3]) \/ ~IntParses(argv[4]) \/ ~IntParses(argv[5])
                 THEN ParseError(h)
            ELSE Dispatched("set_relay",
                            set_relay(b, h, faults, argv[2], IntOf(argv[3]),
                                      IntOf(argv[4]), IntOf(argv[5]) # 0))
      [] command = "read_univin" ->
            IF Len(argv) + 1 < 4 THEN Usage("Usage: read_univin <stack> <channel>", h)
            ELSE IF ~IntParses(argv[2]) \/ ~IntParses(argv[3]) THEN ParseError(h)
            ELSE Dispatched("get_universal_input",
                            get_universal_input(b, h, faults, TRUE, TRUE,
                                                IntOf(argv[2]), IntOf(argv[3])))
      [] command = "set_univout" ->
            IF Len(argv) + 1 < 5
            THEN Usage("Usage: set_univout <stack> <channel> <value>", h)
            ELSE IF ~IntParses(argv[2]) \/ ~IntParses(argv[3]) \/ ~FloatParses(argv[4])
                 THEN ParseError(h)
            ELSE Dispatched("set_universal_output",
                            set_universal_output(b, h, faults, IntOf(argv[2]),
                                                 IntOf(argv[3]), FloatOf(argv[4])))
      [] command = "emergency_stop" ->
            Dispatched("emergency_stop", emergency_stop(b, h, faults))
      [] OTHER -> Usage("Unknown command: {command}", h)

\* (mutant) main without its except clause: the traceback goes to standard
\* error and nothing is printed
mainUncaught(b, h, faults, argv) ==
    IF Len(argv) + 1 < 2
    THEN LET o == Ret([error |-> Msg("No command specified", PyNone),
                       commands |-> Commands], <<>>, h)
         IN [op |-> "none", out |-> o, printed |-> <<o.val>>, code |-> 1]
    ELSE LET d == Dispatch(b, h, faults, argv)
         IN IF d.raised
            THEN [op |-> d.op, out |-> [d.out EXCEPT !.val = ExcResult, !.exc = FALSE],
                  printed |-> <<>>, code |-> 1]
            ELSE [op |-> d.op, out |-> d.out, printed |-> <<d.out.val>>, code |-> 0]

\* main: what it prints and the exit code.  With no command it prints the
\* command list and exits 1; otherwise it prints the result and returns
\* (exit code 0), or prints the exception's message and exits 1.
main(b, h, faults, argv) ==
    IF Len(argv) + 1 < 2
    THEN LET o == Ret([error |-> Msg("No command specified", PyNone),
                       commands |-> Commands], <<>>, h)
         IN [op |-> "none", out |-> o, printed |-> <<o.val>>, code |-> 1]
    ELSE LET d == Dispatch(b, h, faults, argv)
         IN IF d.raised
            THEN [op |-> d.op, out |-> [d.out EXCEPT !.val = ExcResult, !.exc = FALSE],
                  printed |-> <<ExcResult>>, code |-> 1]
            ELSE [op |-> d.op, out |-> d.out, printed |-> <<d.out.val>>, code |-> 0]

\* the command lines offered
ArgVectors ==
    {<<>>, <<"scan">>, <<"info">>, <<"emergency_stop">>, <<"reboot">>, <<"reboot", "0">>,
     <<"status">>, <<"status", "megabas">>,
     <<"set_output", "0", "analog", "2">>, <<"set_relay", "8relind", "0", "1">>,
     <<"read_univin", "0">>, <<"set_univout", "0", "1">>,
     <<"set_relay", "megabas", "0", "1", "1">>}
    \cup {<<"status", bt, st>> :
            bt \in TypeSet, st \in {"0", "7", "8", "x"}}
    \cup {<<"set_output", st, ty, ch, v>> :
            st \in {"0", "x"}, ty \in {"analog", "triac"}, ch \in {"2", "5", "x"},
            v \in {"7.5", "1", "10.5", "nan", "x"}}
    \cup {<<"set_relay", bt, st, ch, v>> :
            bt \in {"8relind", "16relind"}, st \in {"0", "x"}, ch \in {"1", "9", "17", "x"},
            v \in {"0", "1", "x"}}
    \cup {<<"read_univin", st, ch>> : st \in {"0", "x"}, ch \in {"1", "17", "x"}}
    \cup {<<"set_univout", st, ch, v>> :
            st \in {"0", "x"}, ch \in {"1", "17", "x"}, v \in {"7.5", "-0.5", "nan", "x"}}

Main ==
    /\ pc = "idle"
    /\ \E argv \in ArgVectors :
         LET m == main(boards, hw, {}, argv)
         IN Finished([op |-> m.op, via |-> "cli", faults |-> {}, argv |-> argv,
                      exc |-> FALSE, visited |-> m.out.visited],
                     m.out, m.code, stdout \o m.printed)

----------------------------------------------------------------------------
(* scripts/megabas_interface.py: the stand-alone script.  Its functions    *)
(* carry the prefix mi_ where SequentBoardInterface has one of that name.  *)

\* the keys of expansion_libs and the board each library drives
ScriptTypes == <<"8relay", "16relay", "16univin", "16uout">>
ScriptLib(t) ==
    CASE t = "8relay"   -> "8relind"
      [] t = "16relay"  -> "16relind"
      [] t = "16univin" -> "16univin"
      [] t = "16uout"   -> "16uout"
      [] OTHER          -> "megabas"
\* expansion_libs[t] exists: the import of the library succeeded
Imported(b, t) == ScriptLib(t) \in b

\* {"error": str(e), "type": ..., "stack": ...}
mi_Error(type, stack) == [error |-> Msg("str(e)", PyNone), type |-> type, stack |-> stack]
\* a status function's try block: r the outcome of its calls
mi_Try(r, val, type, stack) ==
    IF r.raised THEN Ret(mi_Error(type, stack), r.log, r.hw) ELSE Ret(val, r.log, r.hw)
\* expansion_libs[t] raised KeyError inside the try block
mi_KeyError(h, type, stack) == Ret(mi_Error(type, stack), <<>>, h)

mi_Contacts == 4
\* the reads of the script's get_megabas_status up to the sensors, in order
mi_StatusReads(stack) ==
    <<Read("megabas", "getVer", stack, 0)>>
    \o PerChannel(InputFns, MegabasInputs, stack)
    \o [ch \in 1..MegabasAnalogOuts |-> Read("megabas", "getUOut", stack, ch)]
    \o <<Read("megabas", "getTriacs", stack, 0), Read("megabas", "getContact", stack, 0)>>
    \o PerChannel(ContactFns, mi_Contacts, stack)
    \o [i \in 1..Len(SensorFns) |-> Read("megabas", SensorFns[i], stack, 0)]

\* get_megabas_status of the script: the RTC read has a try block of its
\* own, the watchdog reads have none
mi_get_megabas_status(h, faults, stack) ==
    LET first == RunCalls(h, faults, mi_StatusReads(stack), <<>>)
        rtc   == RunCalls(h, faults, RtcReads(stack), first.log)
        wdt   == RunCalls(h, faults, WdtReads(stack), rtc.log)
        rd(fn, ch) == ReadValue(h, Read("megabas", fn, stack, ch))
        status ==
          [type |-> "megabas", stack |-> stack,
           firmware |-> rd("getVer", 0),
           analog_inputs |->
               [ch \in 1..MegabasInputs |-> [i \in 1..Len(InputFns) |-> rd(InputFns[i], ch)]],
           analog_outputs |-> [ch \in 1..MegabasAnalogOuts |-> rd("getUOut", ch)],
           triacs |-> StatusTriacs(h, stack),
           contacts |->
               [ch \in 1..mi_Contacts |-> [i \in 1..Len(ContactFns) |-> rd(ContactFns[i], ch)]],
           sensors |-> [i \in 1..Len(SensorFns) |-> rd(SensorFns[i], 0)],
           rtc |-> IF rtc.raised THEN PyNone ELSE rd("rtcGet", 0),
           watchdog |-> [i \in 1..Len(WdtFns) |-> rd(WdtFns[i], 0)]]
    IN IF first.raised THEN Ret(mi_Error("megabas", stack), first.log, h)
       ELSE mi_Try(wdt, status, "megabas", stack)

\* get_16relay_status and get_8relay_status: range(n), bit i to ch{i+1}
mi_RelayFlags(relays, n) == [ch \in 1..n |-> (relays \div Pow2(ch - 1)) % 2 = 1]

get_16relay_status(b, h, faults, stack) ==
    IF ~Imported(b, "16relay") THEN mi_KeyError(h, "16relay", stack)
    ELSE LET c == Read("16relind", "get_all", stack, 0)
             r == RunCalls(h, faults, <<Read("16relind", "init", stack, 0), c>>, <<>>)
         IN mi_Try(r, [type |-> "16relay", stack |-> stack,
                       relays |-> IF r.raised THEN <<>>
                                  ELSE mi_RelayFlags(ReadValue(h, c).n \div 10, Relays16)],
                   "16relay", stack)

get_8relay_status(b, h, faults, stack) ==
    IF ~Imported(b, "8relay") THEN mi_KeyError(h, "8relay", stack)
    ELSE LET c == Read("8relind", "get_all", stack, 0)
             r == RunCalls(h, faults, <<c>>, <<>>)
         IN mi_Try(r, [type |-> "8relay", stack |-> stack,
                       relays |-> IF r.raised THEN <<>>
                                  ELSE mi_RelayFlags(ReadValue(h, c).n \div 10, Relays8)],
                   "8relay", stack)

UnivInFns == <<"get_u_in", "get_r1k_in", "get_r10k_in", "get_dig_in",
               "get_dig_in_counter", "get_dig_in_cnt_en">>

get_16univin_status(b, h, faults, stack) ==
    IF ~Imported(b, "16univin") THEN mi_KeyError(h, "16univin", stack)
    ELSE LET rd(fn, ch) == Read("16univin", fn, stack, ch)
             r == RunReads(h, faults,
                           <<rd("init", 0), rd("get_version", 0)>>
                           \o [i \in 1..(UnivInputs * Len(UnivInFns)) |->
                                 rd(UnivInFns[((i - 1) % Len(UnivInFns)) + 1],
                                    ((i - 1) \div Len(UnivInFns)) + 1)])
         IN mi_Try(r, [type |-> "16univin", stack |-> stack,
                       firmware |-> ReadValue(h, rd("get_version", 0)),
                       inputs |-> [ch \in 1..UnivInputs |->
                                      [i \in 1..Len(UnivInFns) |->
                                          ReadValue(h, rd(UnivInFns[i], ch))]]],
                   "16univin", stack)

get_16uout_status(b, h, faults, stack) ==
    IF ~Imported(b, "16uout") THEN mi_KeyError(h, "16uout", stack)
    ELSE LET rd(fn, ch) == Read("16uout", fn, stack, ch)
             r == RunCalls(h, faults,
                           <<rd("get_version", 0), rd("calib_status", 0)>>
                           \o [ch \in 1..UnivOutputs |-> rd("get_u_out", ch)],
                           <<>>)
         IN mi_Try(r, [type |-> "16uout", stack |-> stack,
                       firmware |-> ReadValue(h, rd("get_version", 0)),
                       outputs |-> IF r.raised THEN <<>>
                                   ELSE [ch \in 1..UnivOutputs |->
                                            ReadValue(h, rd("get_u_out", ch))],
                       calibration |-> ReadValue(h, rd("calib_status", 0))],
                   "16uout", stack)

\* the set functions: value is the text of the command line, converted
\* inside the try block; no channel or range check is made
mi_Set(h, faults, cs) ==
    LET r == RunCalls(h, faults, cs, <<>>)
    IN IF r.raised THEN Ret(ExcResult, r.log, r.hw) ELSE Ret([success |-> TRUE], r.log, r.hw)

mi_set_megabas_output(h, faults, stack, output_type, channel, value) ==
    IF output_type = "analog"
    THEN IF ~FloatParses(value) THEN Ret(ExcResult, <<>>, h)
         ELSE mi_Set(h, faults, <<Call("megabas", "setUOut", stack, channel, FloatOf(value))>>)
    ELSE IF ~IntParses(value) THEN Ret(ExcResult, <<>>, h)
         ELSE mi_Set(h, faults,
                     <<Call("megabas", "setTriac", stack, channel, PyInt(IntOf(value)))>>)

mi_set_relay(b, h, faults, board_type, stack, channel, value) ==
    IF ~Imported(b, board_type) THEN Ret(ExcResult, <<>>, h)
    ELSE IF board_type = "16relay"
    THEN LET init == RunCalls(h, faults, <<Read("16relind", "init", stack, 0)>>, <<>>)
         IN IF init.raised \/ ~IntParses(value) THEN Ret(ExcResult, init.log, h)
            ELSE mi_Set(h, faults,
                        <<Read("16relind", "init", stack, 0),
                          Call("16relind", "set", stack, channel, PyInt(IntOf(value)))>>)
    ELSE IF ~IntParses(value) THEN Ret(ExcResult, <<>>, h)
         ELSE mi_Set(h, faults,
                     <<Call("8relind", "set", stack, channel, PyInt(IntOf(value)))>>)

set_16uout(b, h, faults, stack, channel, value) ==
    IF ~Imported(b, "16uout") \/ ~FloatParses(value) THEN Ret(ExcResult, <<>>, h)
    ELSE mi_Set(h, faults, <<Call("16uout", "set_u_out", stack, channel, FloatOf(value))>>)

\* the calls scan_all_boards makes to look for a board of type t at stack
mi_Probe(t, stack) ==
    CASE t = "16relay"  -> <<Read("16relind", "init", stack, 0),
                             Read("16relind", "get_all", stack, 0)>>
      [] t = "8relay"   -> <<Read("8relind", "get_all", stack, 0)>>
      [] t = "16univin" -> <<Read("16univin", "init", stack, 0),
                             Read("16univin", "get_version", stack, 0)>>
      [] t = "16uout"   -> <<Read("16uout", "get_version", stack, 0)>>

\* (mutant) the search at a stack goes on after a library has answered
RECURSIVE mi_ScanEveryLibrary(_, _, _, _, _, _)
mi_ScanEveryLibrary(b, h, faults, k, found, log) ==
    IF k >= (NumStacks - 1) * Len(ScriptTypes) THEN [list |-> found, log |-> log]
    ELSE LET stack == 1 + (k \div Len(ScriptTypes))
             t     == ScriptTypes[(k % Len(ScriptTypes)) + 1]
             r     == RunCalls(h, faults, mi_Probe(t, stack), log)
         IN IF ~Imported(b, t)
            THEN mi_ScanEveryLibrary(b, h, faults, k + 1, found, log)
            ELSE IF r.raised
                 THEN mi_ScanEveryLibrary(b, h, faults, k + 1, found, r.log)
                 ELSE mi_ScanEveryLibrary(b, h, faults, k + 1,
                                          Append(found, [type |-> t, stack |-> stack]), r.log)

\* scan_all_boards, expansion boards: stack 1..7, the imported libraries in
\* the order of their import; position k is stack 1 + k \div 4, type k % 4.
\* The first library that answers at a stack ends the search there (break).
RECURSIVE mi_ScanFrom(_, _, _, _, _, _)
mi_ScanFrom(b, h, faults, k, found, log) ==
    IF k >= (NumStacks - 1) * Len(ScriptTypes) THEN [list |-> found, log |-> log]
    ELSE LET stack == 1 + (k \div Len(ScriptTypes))
             t     == ScriptTypes[(k % Len(ScriptTypes)) + 1]
             r     == RunCalls(h, faults, mi_Probe(t, stack), log)
         IN IF ~Imported(b, t)
            THEN mi_ScanFrom(b, h, faults, k + 1, found, log)
            ELSE IF r.raised
                 THEN mi_ScanFrom(b, h, faults, k + 1, found, r.log)
                 ELSE mi_ScanFrom(b, h, faults, stack * Len(ScriptTypes),
                                  Append(found, [type |-> t, stack |-> stack]), r.log)

\* scan_all_boards: a megabas is looked for at stack 0 only
scan_all_boards(b, h, faults) ==
    LET r == RunCalls(h, faults, <<Read("megabas", "getVer", 0, 0)>>, <<>>)
    IN mi_ScanFrom(b, h, faults, 0,
                   IF r.raised THEN <<>> ELSE <<[type |-> "megabas", stack |-> 0]>>,
                   r.log)

\* what a run of the script leaves: the function invoked, what it handed
\* back, the documents printed and the exit code
mi_Out(op, o, code) == [op |-> op, out |-> o, printed |-> <<o.val>>, code |-> code]
\* print(json.dumps({"error": ...})); sys.exit(1)
mi_Exit1(text, h) == mi_Out("none", Ret(ErrorResult(text, PyNone), <<>>, h), 1)
\* result = {"error": ...}; print(json.dumps(result))
mi_Unknown(text, h) == mi_Out("none", Ret(ErrorResult(text, PyNone), <<>>, h), 0)

\* the script from its imports to its exit; argv is sys.argv[1:]
mi_main(b, h, faults, argv) ==
    IF "megabas" \notin b THEN mi_Exit1("megabas library not installed", h)
    ELSE IF Len(argv) + 1 < 2 THEN mi_Exit1("No command specified", h)
    ELSE
    LET command == argv[1]
        raised  == mi_Out("none", Ret(ExcResult, <<>>, h), 1)
    IN
    CASE command = "scan" ->
            LET s == scan_all_boards(b, h, faults)
            IN mi_Out("scan_all_boards", Ret([list |-> s.list], s.log, h), 0)
      [] command = "status" ->
            IF Len(argv) + 1 < 4 THEN mi_Exit1("Missing board type and stack", h)
            ELSE IF ~IntParses(argv[3]) THEN raised
            ELSE LET stack == IntOf(argv[3]) IN
                 CASE argv[2] = "megabas" ->
                        mi_Out("mi_get_megabas_status", mi_get_megabas_status(h, faults, stack), 0)
                   [] argv[2] = "16relay" ->
                        mi_Out("get_16relay_status", get_16relay_status(b, h, faults, stack), 0)
                   [] argv[2] = "8relay" ->
                        mi_Out("get_8relay_status", get_8relay_status(b, h, faults, stack), 0)
                   [] argv[2] = "16univin" ->
                        mi_Out("get_16univin_status", get_16univin_status(b, h, faults, stack), 0)
                   [] argv[2] = "16uout" ->
                        mi_Out("get_16uout_status", get_16uout_status(b, h, faults, stack), 0)
                   [] OTHER -> mi_Unknown("Unknown board type: {board_type}", h)
      [] command = "set" ->
            IF Len(argv) + 1 < 6 THEN mi_Exit1("Missing parameters", h)
            ELSE IF ~IntParses(argv[3]) \/ ~IntParses(argv[4]) THEN raised
            ELSE LET stack   == IntOf(argv[3])
                     channel == IntOf(argv[4])
                     value   == argv[5]
                 IN
                 CASE argv[2] = "megabas-analog" ->
                        mi_Out("mi_set_megabas_output",
                               mi_set_megabas_output(h, faults, stack, "analog", channel, value), 0)
                   [] argv[2] = "megabas-triac" ->
                        mi_Out("mi_set_megabas_output",
                               mi_set_megabas_output(h, faults, stack, "triac", channel, value), 0)
                   [] argv[2] \in {"16relay", "8relay"} ->
                        mi_Out("mi_set_relay",
                               mi_set_relay(b, h, faults, argv[2], stack, channel, value), 0)
                   [] argv[2] = "16uout" ->
                        mi_Out("set_16uout", set_16uout(b, h, faults, stack, channel, value), 0)
                   [] OTHER -> mi_Unknown("Unknown board type: {board_type}", h)
      [] OTHER -> mi_Unknown("Unknown command: {command}", h)

\* the command lines offered to the script
mi_ArgVectors ==
    {<<>>, <<"scan">>, <<"reboot">>, <<"status">>, <<"status", "megabas">>,
     <<"set">>, <<"set", "8relay", "0", "1">>}
    \cup {<<"status", bt, st>> :
            bt \in {"megabas", "8relay", "16relay", "16univin", "16uout", "8relind"},
            st \in {"0", "7", "8", "x"}}
    \cup {<<"set", bt, "0", ch, v>> :
            bt \in {"megabas-analog", "megabas-triac", "8relay", "16relay", "16uout", "pwm"},
            ch \in {"1", "9", "17", "x"}, v \in {"1", "7.5", "x"}}

\* the reads of a megabas status that are made to raise, one at a time
mi_Faults(argv) ==
    IF Len(argv) = 3 /\ argv[1] = "status" /\ argv[2] = "megabas" /\ IntParses(argv[3])
    THEN {{}} \cup {{<<"megabas", fn, IntOf(argv[3]), 0>>} :
                       fn \in {"getVer", "rtcGet", "wdtGetPeriod", "wdtGetResetCount"}}
    ELSE {{}}

\* one run of scripts/megabas_interface.py
Script ==
    /\ pc = "idle"
    /\ \E argv \in mi_ArgVectors :
       \E faults \in mi_Faults(argv) :
         LET m == mi_main(boards, hw, faults, argv)
         IN Finished([op |-> m.op, via |-> "script", faults |-> faults, argv |-> argv,
                      exc |-> FALSE, visited |-> <<>>],
                     m.out, m.code, stdout \o m.printed)

\* A status read of the board a set operation has just addressed.
ReadBack ==
    /\ pc = "done"
    /\ req.op \in {"set_megabas_output", "set_relay"}
    /\ "success" \in DOMAIN result
    /\ LET stack == IF req.via = "cli"
                    THEN IntOf(req.argv[IF req.op = "set_relay" THEN 3 ELSE 2])
                    ELSE req.stack
           o == IF req.op = "set_megabas_output"
                THEN get_megabas_status(boards, hw, {}, stack)
                ELSE get_relay_status(boards, hw, {},
                        IF req.via = "cli" THEN req.argv[2] ELSE req.board_type, stack)
       IN /\ pc' = "read"
          /\ req' = [op |-> IF req.op = "set_megabas_output" THEN "get_megabas_status"
                            ELSE "get_relay_status",
                     via |-> "api", faults |-> {}, stack |-> stack, exc |-> o.exc,
                     visited |-> <<>>, after |-> [req |-> req, result |-> result]]
          /\ result' = o.val
          /\ calls' = o.log
          /\ hw' = o.hw
          /\ hw0' = hw
          /\ UNCHANGED <<boards, exitCode, stdout, configs, programs>>

\* get_board_info called once more on the same interface, after an
\* operation that read self.board_configs
InfoAfter ==
    /\ pc = "done"
    /\ req.via = "api"
    /\ req.op \in {"scan_boards", "emergency_stop", "get_board_info"}
    /\ pc' = "info"
    /\ req' = [op |-> "get_board_info", via |-> "api", faults |-> {}, exc |-> FALSE,
               visited |-> <<>>, after |-> [req |-> req, result |-> result]]
    /\ result' = get_board_info
    /\ calls' = <<>>
    /\ hw0' = hw
    /\ UNCHANGED <<boards, hw, exitCode, stdout, configs, programs>>

\* scan_boards called once more on the same interface, the bus and the
\* probes that fail being what they were for the first scan
Rescan ==
    /\ pc = "done"
    /\ req.via = "api"
    /\ req.op = "scan_boards"
    /\ LET s == scan_boards(boards, hw, req.faults)
       IN /\ pc' = "rescan"
          /\ req' = [op |-> "scan_boards", via |-> "api", faults |-> req.faults,
                     exc |-> FALSE, visited |-> <<>>,
                     after |-> [req |-> req, result |-> result, calls |-> calls]]
          /\ result' = [list |-> s.list]
          /\ calls' = s.log
          /\ hw0' = hw
          /\ UNCHANGED <<boards, hw, exitCode, stdout, configs, programs>>

Next ==
    \/ ScanBoards
    \/ GetBoardInfo
    \/ GetMegabasStatus
    \/ SetMegabasOutput
    \/ GetRelayStatus
    \/ SetRelay
    \/ GetUniversalInput
    \/ SetUniversalOutput
    \/ EmergencyStop
    \/ Main
    \/ Script
    \/ ReadBack
    \/ InfoAfter
    \/ Rescan

Spec == Init /\ [][Next]_vars

----------------------------------------------------------------------------
(* Properties *)

Finished_ == pc \in {"done", "read"}
ViaCli == pc = "done" /\ req.via = "cli"

\* the arguments of the set_megabas_output call of invocation r
OutputArgsOf(r) ==
    IF r.via = "cli"
    THEN [stack |-> IntOf(r.argv[2]), output_type |-> r.argv[3],
          channel |-> IntOf(r.argv[4]),
          value |-> IF r.argv[3] = "analog" THEN FloatOf(r.argv[5])
                    ELSE PyInt(IntOf(r.argv[5]))]
    ELSE [stack |-> r.stack, output_type |-> r.output_type,
          channel |-> r.channel, value |-> r.value]
\* the arguments of the set_megabas_output call of the last invocation
SetOutputArgs == OutputArgsOf(req)

\* v is not a voltage of the closed interval [0 V, 10 V]
OutsideVolts(v) == ~(v.t # "nan" /\ 0 <= v.n /\ v.n <= MaxVolt)

FailedCalls == {i \in 1..Len(calls) : ~calls[i].ok}
WriteCalls == {i \in 1..Len(calls) : IsWrite(calls[i].call)}

\* C1: set_output with kind "analog" fails validation for every channel
\* outside [1,4] and for every value outside [0,10]: the result is an
\* {error} and no driver function is called, whatever the stack address.
C1_AnalogValidation ==
    (/\ pc = "done"
     /\ req.op = "set_megabas_output"
     /\ SetOutputArgs.output_type = "analog"
     /\ (SetOutputArgs.channel \notin 1..MegabasAnalogOuts
            \/ OutsideVolts(SetOutputArgs.value)))
    => (IsError(result) /\ calls = <<>>)

\* set_output with kind analog and the value nan on a valid channel: the
\* driver's setUOut was called with nan
C1_Witness ==
    /\ pc = "done"
    /\ req.op = "set_megabas_output"
    /\ SetOutputArgs.output_type = "analog"
    /\ SetOutputArgs.value = PyNaN
    /\ Len(calls) = 1
    /\ calls[1].call.fn = "setUOut"
    /\ calls[1].call.val = PyNaN

\* the same for every value that is a number: only nan slips through
C1_AnalogValidationOfNumbers ==
    (/\ pc = "done"
     /\ req.op = "set_megabas_output"
     /\ SetOutputArgs.output_type = "analog"
     /\ SetOutputArgs.value.t # "nan"
     /\ (SetOutputArgs.channel \notin 1..MegabasAnalogOuts
            \/ OutsideVolts(SetOutputArgs.value)))
    => (IsError(result) /\ calls = <<>>)

\* what discovery found at the start of the last operation, as (type, stack)
Discovered ==
    LET list == scan_boards(boards, hw0, req.faults).list
    IN [i \in 1..Len(list) |-> BoardId(list[i].type, list[i].stack)]
HasOutputs(id) == id[1] # "16univin"
NoRepeats(seq) == \A i, j \in 1..Len(seq) : i # j => seq[i] # seq[j]

\* C2 (as claimed): emergency_stop visits every discovered board exactly
\* once and results holds exactly one entry per discovered board, whatever
\* the board types, also when stop calls raise.
C2_OneEntryPerBoard ==
    (pc = "done" /\ req.op = "emergency_stop")
    => /\ req.visited = Discovered
       /\ NoRepeats(req.visited)
       /\ Len(result.results) = Len(Discovered)

\* C2 (amended): emergency_stop visits every discovered board exactly once,
\* and results holds, in discovery order, exactly one entry for every
\* discovered board other than the 16univin ones, also when stop calls raise.
C2_OneEntryPerOutputBoard ==
    (pc = "done" /\ req.op = "emergency_stop")
    => /\ req.visited = Discovered
       /\ NoRepeats(req.visited)
       /\ [i \in 1..Len(result.results) |-> result.results[i].board]
            = SelectSeq(Discovered, HasOutputs)

\* the stop of the first board raised and the second board was stopped
C2_Witness ==
    /\ pc = "done" /\ req.op = "emergency_stop"
    /\ Len(result.results) = 2
    /\ "error" \in DOMAIN result.results[1]
    /\ "status" \in DOMAIN result.results[2]

\* C3 (as claimed): scan never registers two boards for one stack address.
C3_OneBoardPerStack ==
    (pc = "done" /\ req.op = "scan_boards")
    => \A i, j \in 1..Len(result.list) :
          i # j => result.list[i].stack # result.list[j].stack

\* C3 (amended): scan never registers two boards for one (type, stack) pair,
\* and every type that answers at a stack address is registered there.
C3_OneEntryPerResponder ==
    (pc = "done" /\ req.op = "scan_boards")
    => LET ids == [i \in 1..Len(result.list) |->
                      BoardId(result.list[i].type, result.list[i].stack)]
       IN /\ NoRepeats(ids)
          /\ {ids[i] : i \in 1..Len(ids)}
               = {id \in boards \X (0..(NumStacks - 1)) :
                     ~Raises(hw0, req.faults, Probe(id[1], id[2]))}

\* two boards registered at one stack address
C3_Witness ==
    /\ pc = "done" /\ req.op = "scan_boards"
    /\ Len(result.list) = 2
    /\ result.list[1].stack = result.list[2].stack

\* a relay status was read: by get_relay_status, by the status command, or
\* as the read that follows a set_relay
RelayRead ==
    /\ Finished_
    /\ req.op = "get_relay_status"
    /\ "relays" \in DOMAIN result
    /\ result.type \in {"8relind", "16relind"}
\* the word the driver's get handed to that read
RawMask == hw0.out[<<result.type, result.stack>>].mask
\* the number whose bit ch - 1 is set exactly when flags[ch] is, ch in 1..n
RECURSIVE MaskOf(_, _)
MaskOf(flags, n) ==
    IF n = 0 THEN 0
    ELSE MaskOf(flags, n - 1) + (IF flags[n] THEN Pow2(n - 1) ELSE 0)

\* C4: relay status unpacking is bit-exact: get_relay_status reports
\* channels 1..8 of an 8-relay board and 1..16 of a 16-relay board, channel
\* ch true iff bit ch - 1 of the raw mask is set; the bits above the channel
\* count are ignored.
C4_RelayBitsExact ==
    RelayRead
    => LET n == IF result.type = "8relind" THEN 8 ELSE 16
       IN /\ DOMAIN result.relays = 1..n
          /\ \A ch \in 1..n : result.relays[ch] \in BOOLEAN
          /\ MaskOf(result.relays, n) = RawMask % Pow2(n)

\* raw word 0b1_0000_0101 on an 8-relay board: channels 1 and 3 true, the
\* others false, bit 8 ignored
C4_Witness ==
    /\ RelayRead
    /\ result.type = "8relind"
    /\ RawMask = 261
    /\ {ch \in 1..8 : result.relays[ch]} = {1, 3}

\* the command line of the last invocation was argv
Ran(argv) == ViaCli /\ req.argv = argv
InvalidRelayChannel ==
    {"Invalid relay channel: {channel}. 8relind has 8 relays (1-8)",
     "Invalid relay channel: {channel}. 16relind has 16 relays (1-16)"}
\* the result is the error "Invalid relay channel: <channel>..."
RejectedChannel(channel) ==
    /\ IsError(result)
    /\ result.error.fmt \in InvalidRelayChannel
    /\ result.error.arg = PyInt(channel)

ReadAfterSetOutput ==
    /\ pc = "read"
    /\ req.after.req.op = "set_megabas_output"
    /\ "success" \in DOMAIN req.after.result
    /\ req.after.result.success

\* C6: round trip: after set_output(stack, kind, ch, v) returned success on a
\* megabas board, a status read of the same stack issued immediately
\* afterwards reports the value written for that channel: analog_outputs ch
\* equals v for kind analog, triacs ch equals (v != 0) for kind triac.
C6_RoundTrip ==
    ReadAfterSetOutput
    => LET a == OutputArgsOf(req.after.req)
       IN /\ ~IsError(result)
          /\ result.stack = a.stack
          /\ req.after.result.channel = a.channel
          /\ a.output_type = "analog" =>
                /\ PyEq(req.after.result.value, a.value)
                /\ PyEq(result.analog_outputs[a.channel], a.value)
          /\ a.output_type = "triac" =>
                result.triacs[a.channel] = (a.value.n # 0)

\* set_output 0 analog 2 7.5, then status megabas 0 shows ch2 at 7.5 V
C6_Witness ==
    /\ ReadAfterSetOutput
    /\ req.after.req.via = "cli"
    /\ req.after.req.argv = <<"set_output", "0", "analog", "2", "7.5">>
    /\ result.analog_outputs[2] = PyFloat(75)
    /\ hw0.out[<<"megabas", 0>>].u[2] = PyFloat(75)

\* an emergency stop returned and none of its writes raised (the probes of
\* discovery raise at every address without a board: that is how it finds
\* the boards)
StoppedClean ==
    /\ pc = "done"
    /\ req.op = "emergency_stop"
    /\ \A i \in FailedCalls : ~IsWrite(calls[i].call)

\* C7: when emergency_stop returns and no driver call failed, every
\* controllable output of every discovered board is at its safe value: the
\* triacs off and the analog outputs at 0 on each megabas, all relays off on
\* each 8relind and 16relind, all outputs at 0 on each 16uout; no driver
\* write is issued to a 16univin.
C7_SafeAfterStop ==
    StoppedClean
    => /\ \A i \in 1..Len(Discovered) :
            LET o == hw.out[Discovered[i]]
            IN /\ o.mask = 0
               /\ \A ch \in DOMAIN o.u : PyEq(o.u[ch], PyInt(0))
       /\ \A i \in WriteCalls : calls[i].call.lib # "16univin"

\* a megabas whose outputs were live and a 16univin were discovered, and the
\* megabas is now at its safe values
C7_Witness ==
    /\ StoppedClean
    /\ \E i, j \in 1..Len(Discovered) :
          /\ Discovered[i][1] = "megabas"
          /\ Discovered[j][1] = "16univin"
          /\ hw0.out[Discovered[i]].mask # 0
          /\ hw0.out[Discovered[i]].u[4] = PyFloat(20)
          /\ hw.out[Discovered[i]].mask = 0
          /\ hw.out[Discovered[i]].u[4] = PyFloat(0)

AdapterOps ==
    {"get_megabas_status", "set_megabas_output", "get_relay_status", "set_relay",
     "get_universal_input", "set_universal_output", "scan_boards", "emergency_stop"}
StatusSetOps == AdapterOps \ {"scan_boards", "emergency_stop"}
\* the reads of the real-time clock and of the watchdog
OptionalReads == {"rtcGet", "wdtGetPeriod", "wdtGetDefaultPeriod",
                  "wdtGetOffInterval", "wdtGetResetCount"}

\* C8 (as claimed): no adapter operation propagates a driver exception to
\* its caller: whichever driver call raises, the operation returns normally,
\* and for the status and set operations the value returned is an {error}.
C8_DriverErrorsReported ==
    (Finished_ /\ req.op \in AdapterOps /\ FailedCalls # {})
    => /\ ~req.exc
       /\ req.op \in StatusSetOps => IsError(result)

\* C8 (amended): no adapter operation propagates a driver exception to its
\* caller, and for the status and set operations the value returned is an
\* {error} whenever the call that raised is not a read of the real-time
\* clock or of the watchdog; when only those reads raise, get_megabas_status
\* returns the status with rtc or watchdog left empty.
C8_DriverErrorsReportedOrOmitted ==
    (Finished_ /\ req.op \in AdapterOps /\ FailedCalls # {})
    => /\ ~req.exc
       /\ (req.op \in StatusSetOps
           /\ \E i \in FailedCalls : calls[i].call.fn \notin OptionalReads)
              => IsError(result)
       /\ (req.op = "get_megabas_status"
           /\ \A i \in FailedCalls : calls[i].call.fn \in OptionalReads)
              => /\ ~IsError(result)
                 /\ \A i \in FailedCalls :
                       IF calls[i].call.fn = "rtcGet" THEN result.rtc = PyNone
                       ELSE result.watchdog = <<>>

\* a write to a relay board that is on the bus raised, and set_relay
\* returned an {error}
C8_Witness ==
    /\ pc = "done"
    /\ req.op = "set_relay"
    /\ req.via = "api"
    /\ <<req.board_type, req.stack>> \in hw.present
    /\ FailedCalls # {}
    /\ IsError(result)

\* the texts offered as arguments that int() rejects, and that float() rejects
NotInt(s) == s \in {"x", "7.5", "10.5", "-0.5", "nan"}
NotFloat(s) == s = "x"
Recognized ==
    {"scan", "info", "status", "set_output", "set_relay", "read_univin",
     "set_univout", "emergency_stop"}
\* the number of arguments a command takes after its name
Arity(command) ==
    CASE command = "status" -> 2
      [] command \in {"set_output", "set_relay"} -> 4
      [] command = "read_univin" -> 2
      [] command = "set_univout" -> 3
      [] OTHER -> 0
NoCommand(argv) == argv = <<>>
UnknownCommand(argv) == argv # <<>> /\ argv[1] \notin Recognized
TooFewArgs(argv) ==
    argv # <<>> /\ argv[1] \in Recognized /\ Len(argv) - 1 < Arity(argv[1])
\* a complete command line with an argument that does not parse as the
\* number its position asks for
BadNumber(argv) ==
    /\ argv # <<>>
    /\ argv[1] \in Recognized
    /\ ~TooFewArgs(argv)
    /\ CASE argv[1] = "status" -> NotInt(argv[3])
         [] argv[1] = "set_output" ->
               \/ NotInt(argv[2])
               \/ NotInt(argv[4])
               \/ (argv[3] = "analog" /\ NotFloat(argv[5]))
               \/ (argv[3] # "analog" /\ NotInt(argv[5]))
         [] argv[1] = "set_relay" -> \E i \in 3..5 : NotInt(argv[i])
         [] argv[1] = "read_univin" -> \E i \in 2..3 : NotInt(argv[i])
         [] argv[1] = "set_univout" ->
               NotInt(argv[2]) \/ NotInt(argv[3]) \/ NotFloat(argv[4])
         [] OTHER -> FALSE

\* C9: the command-line program exits with code 0 for every recognized
\* command, also when the result printed is an {error} (driver failure,
\* validation failure, too few arguments); it exits with code 1 exactly when
\* no command is given or an exception is raised while parsing an argument.
C9_ExitCodes ==
    ViaCli
    => /\ exitCode \in {0, 1}
       /\ exitCode = 1 <=> (NoCommand(req.argv) \/ BadNumber(req.argv))
       /\ (req.argv # <<>> /\ req.argv[1] \in Recognized /\ ~BadNumber(req.argv))
             => exitCode = 0

\* a status command whose driver call raised: an {error} is printed and the
\* exit code is 0
C9_Witness ==
    /\ ViaCli
    /\ req.argv # <<>>
    /\ req.argv[1] = "status"
    /\ FailedCalls # {}
    /\ IsError(result)
    /\ exitCode = 0

\* C10: every outcome of a command-line invocation, success or error, is one
\* document printed to standard output; too few arguments for a command and
\* an unknown command name each print an {error} object.
C10_OneDocumentPrinted ==
    ViaCli
    => /\ Len(stdout) = 1
       /\ stdout[1] = result
       /\ (TooFewArgs(req.argv) \/ UnknownCommand(req.argv))
             => (IsError(stdout[1]) /\ calls = <<>>)
       /\ exitCode = 1 => IsError(stdout[1])

\* set_output with its value missing: the usage error is what is printed
C10_Witness ==
    /\ Ran(<<"set_output", "0", "analog", "2">>)
    /\ stdout = <<ErrorResult("Usage: set_output <stack> <type> <channel> <value>", PyNone)>>

\* C11 (as claimed): an argument that does not parse is not caught by the
\* dispatcher: the process exits with code 1 and what it prints to standard
\* output is no JSON document, not the {error: message} envelope.
C11_ParseErrorNotJson ==
    (ViaCli /\ BadNumber(req.argv)) => (exitCode = 1 /\ stdout = <<>>)

\* C11 (amended): an argument that does not parse raises inside main's try
\* block and is caught by its except clause: the process exits with code 1,
\* no adapter operation is invoked, and what it prints to standard output is
\* one JSON document, the {error: str(e)} envelope.
C11_ParseErrorJsonExit1 ==
    (ViaCli /\ BadNumber(req.argv))
    => /\ exitCode = 1
       /\ stdout = <<ExcResult>>
       /\ req.op = "none"
       /\ calls = <<>>
       /\ hw = hw0

\* set_relay 8relind 0 x 1: the channel is no integer
C11_Witness ==
    /\ Ran(<<"set_relay", "8relind", "0", "x", "1">>)
    /\ exitCode = 1
    /\ stdout = <<ExcResult>>

SetOps == {"set_megabas_output", "set_relay", "set_universal_output"}
\* a set operation returned {success: true, ...}
SetSucceeded ==
    /\ pc = "done"
    /\ req.op \in SetOps
    /\ "success" \in DOMAIN result
\* the board and the channel the set operation of invocation r names
TargetOf(r) ==
    IF r.via = "cli"
    THEN CASE r.op = "set_megabas_output" ->
                [lib |-> "megabas", stack |-> IntOf(r.argv[2]), channel |-> IntOf(r.argv[4])]
           [] r.op = "set_relay" ->
                [lib |-> r.argv[2], stack |-> IntOf(r.argv[3]), channel |-> IntOf(r.argv[4])]
           [] r.op = "set_universal_output" ->
                [lib |-> "16uout", stack |-> IntOf(r.argv[2]), channel |-> IntOf(r.argv[3])]
    ELSE [lib |-> CASE r.op = "set_relay" -> r.board_type
                    [] r.op = "set_universal_output" -> "16uout"
                    [] OTHER -> "megabas",
          stack |-> r.stack, channel |-> r.channel]
\* between hw0 and hw nothing changed but, at most, channel t.channel of the
\* board t.lib at t.stack: its switch when fn sets switches, its voltage when
\* fn sets voltages
OnlyChannelChanged(t, fn) ==
    /\ hw.present = hw0.present
    /\ \A b \in hw0.present :
          LET before == hw0.out[b]
              after  == hw.out[b]
              here   == b = <<t.lib, t.stack>>
          IN /\ DOMAIN after.u = DOMAIN before.u
             /\ \A ch \in 1..(Relays16 + 1) :
                   BitSet(after.mask, ch) # BitSet(before.mask, ch)
                   => (here /\ ch = t.channel /\ fn \in {"setTriac", "set"})
             /\ \A ch \in DOMAIN before.u :
                   after.u[ch] # before.u[ch]
                   => (here /\ ch = t.channel /\ fn \in {"setUOut", "writeU0_10Out"})
\* exactly one driver call was made: a write to the target
OneWriteTo(t) ==
    /\ Len(calls) = 1
    /\ calls[1].ok
    /\ IsWrite(calls[1].call)
    /\ calls[1].call.lib = t.lib
    /\ calls[1].call.stack = t.stack
    /\ calls[1].call.ch = t.channel
    /\ OnlyChannelChanged(t, calls[1].call.fn)

\* C12 (as claimed): a successful set_output, set_relay or
\* set_universal_output issues exactly one driver write, addressed to the
\* (stack, channel) it names, and leaves every other channel and every other
\* board unchanged.
C12_SingleChannelWritten ==
    SetSucceeded => OneWriteTo(TargetOf(req))

\* the same for every successful set but a set_relay that names a board type
\* other than 8relind and 16relind
C12_SingleChannelWrittenOnRelayBoards ==
    (SetSucceeded /\ (req.op = "set_relay" => TargetOf(req).lib \in {"8relind", "16relind"}))
    => OneWriteTo(TargetOf(req))

\* set_relay megabas 0 1 1 reports success and no driver call was made
C12_Witness ==
    /\ Ran(<<"set_relay", "megabas", "0", "1", "1">>)
    /\ result = [success |-> TRUE, channel |-> 1, state |-> TRUE]
    /\ calls = <<>>
    /\ exitCode = 0

\* the status read of a megabas board, in the adapter and in the script
MegabasStatusOps == {"get_megabas_status", "mi_get_megabas_status"}
FailedFns == {calls[i].call.fn : i \in FailedCalls}
\* only reads of the real-time clock or of the watchdog raised
OnlyOptionalFailed == FailedCalls # {} /\ FailedFns \subseteq OptionalReads
\* the status is a status object: the block whose read raised carries no
\* data, every other section carries what the board returned
StatusButFailedBlock ==
    LET rd(fn) == ReadValue(hw, Read("megabas", fn, result.stack, 0))
    IN /\ ~IsError(result)
       /\ result.type = "megabas"
       /\ result.firmware = rd("getVer")
       /\ result.sensors = [i \in 1..Len(SensorFns) |-> rd(SensorFns[i])]
       /\ result.analog_outputs =
             [ch \in 1..MegabasAnalogOuts |->
                 ReadValue(hw, Read("megabas", "getUOut", result.stack, ch))]
       /\ result.triacs = StatusTriacs(hw, result.stack)
       /\ result.rtc = IF "rtcGet" \in FailedFns THEN PyNone ELSE rd("rtcGet")
       /\ result.watchdog = IF FailedFns \ {"rtcGet"} # {} THEN <<>>
                            ELSE [i \in 1..Len(WdtFns) |-> rd(WdtFns[i])]

\* C13 (as claimed): in the megabas status read the clock read and the
\* watchdog reads may each raise without failing the call: when only they
\* raise, the value returned is a status object without an error key, the
\* other sections are filled and the block that raised carries no data.
C13_OptionalReadsIndependent ==
    (pc = "done" /\ req.op \in MegabasStatusOps /\ OnlyOptionalFailed)
    => StatusButFailedBlock

\* the same for SequentBoardInterface.get_megabas_status alone
C13_OptionalReadsIndependentInAdapter ==
    (pc = "done" /\ req.op = "get_megabas_status" /\ OnlyOptionalFailed)
    => StatusButFailedBlock

\* megabas_interface.py status megabas 0: a watchdog read raised, every
\* other read succeeded, and the status call returned an error
C13_Witness ==
    /\ pc = "done"
    /\ req.via = "script"
    /\ req.argv = <<"status", "megabas", "0">>
    /\ FailedFns = {"wdtGetPeriod"}
    /\ Len(calls) > 1
    /\ IsError(result)
    /\ exitCode = 0

\* a status command with an integer stack address, of either program
StatusRun ==
    /\ pc = "done"
    /\ req.via \in {"cli", "script"}
    /\ Len(req.argv) = 3
    /\ req.argv[1] = "status"
    /\ IntParses(req.argv[3])
\* the board type a status command names: firmware_interface.py takes the
\* names of board_configs, the script those of expansion_libs
StatusType ==
    CASE req.via = "cli" /\ req.argv[2] \in TypeSet -> req.argv[2]
      [] req.via = "script" /\ req.argv[2] = "megabas" -> "megabas"
      [] req.via = "script" /\ req.argv[2] \in {"8relay", "16relay", "16univin", "16uout"} ->
            ScriptLib(req.argv[2])
      [] OTHER -> "none"
\* the board named is on the bus, its library was imported (with megabas,
\* which the script imports before anything else) and no read raised
StatusOfLiveBoard ==
    /\ StatusRun
    /\ StatusType \in boards
    /\ req.via = "script" => "megabas" \in boards
    /\ <<StatusType, IntOf(req.argv[3])>> \in hw.present
    /\ FailedCalls = {}
\* a status object with what the type calls for: readings of each of the 16
\* inputs, or the last voltage of each of the 16 outputs and the calibration
StatusObject ==
    LET stack == IntOf(req.argv[3])
    IN /\ ~IsError(result)
       /\ StatusType = "16univin" =>
             /\ DOMAIN result.inputs = 1..UnivInputs
             /\ \A ch \in 1..UnivInputs :
                   result.inputs[ch][1] = ReadValue(hw, Read("16univin", "get_u_in", stack, ch))
       /\ StatusType = "16uout" =>
             /\ result.outputs = [ch \in 1..UnivOutputs |-> hw.out[<<"16uout", stack>>].u[ch]]
             /\ "calibration" \in DOMAIN result

\* C14 (as claimed): status <board_type> <stack> returns a status object for
\* every board type of the capability model: for 16univin the readings of
\* each of the 16 inputs, for 16uout the last-set voltage of each of the 16
\* outputs and the calibration status.
C14_StatusForEveryType ==
    StatusOfLiveBoard => StatusObject

\* the same for the status command of scripts/megabas_interface.py, and for
\* that of firmware_interface.py on megabas and the relay boards
C14_StatusForEveryTypeButUniversal ==
    (StatusOfLiveBoard
     /\ (req.via = "cli" => StatusType \in {"megabas", "8relind", "16relind"}))
    => StatusObject

\* firmware_interface.py status 16univin 0 with the board on the bus and
\* its library imported: an error is printed and no driver call was made
C14_Witness ==
    /\ Ran(<<"status", "16univin", "0">>)
    /\ "16univin" \in boards
    /\ <<"16univin", 0>> \in hw.present
    /\ IsError(result)
    /\ calls = <<>>
    /\ stdout # <<>>

\* the channel counts declared for the five board types: a count is given
\* for the directions a board has, and no key for those it has not
DeclaredCounts(t) ==
    /\ DOMAIN t = {"megabas", "relind8", "relind16", "univin16", "uout16"}
    /\ t.megabas.triacs = 4
    /\ t.megabas.analog_outputs = 4
    /\ t.megabas.configurable_inputs = 8
    /\ "relays" \notin DOMAIN t.megabas
    /\ t.relind8.relays = 8
    /\ t.relind16.relays = 16
    /\ t.univin16.universal_inputs = 16
    /\ DOMAIN t.univin16 \cap {"analog_outputs", "relays", "triacs"} = {}
    /\ t.uout16.analog_outputs = 16
    /\ DOMAIN t.uout16 \cap {"universal_inputs", "configurable_inputs"} = {}

StackRange == 0..(NumStacks - 1)
CalledStacks == {calls[i].call.stack : i \in DOMAIN calls}

\* C16 (as claimed): a stack address is always in [0,7]: whatever the
\* command and its arguments, every stack address handed to a driver
\* function lies in 0..7, and a request that names an address outside that
\* range never reaches the driver.
C16_StackInRange ==
    pc # "idle" => CalledStacks \subseteq StackRange

\* the same for the operations that take no stack address from the caller:
\* scan and emergency_stop address 0..7 only
C16_StackInRangeOfScan ==
    (pc # "idle" /\ req.op \in {"scan_boards", "emergency_stop", "scan_all_boards"})
    => CalledStacks \subseteq StackRange

\* firmware_interface.py status megabas 8: getVer(8) was called and raised
C16_Witness ==
    /\ Ran(<<"status", "megabas", "8">>)
    /\ Len(calls) = 1
    /\ calls[1].call = Read("megabas", "getVer", NumStacks, 0)
    /\ ~calls[1].ok
    /\ IsError(result)

\* the driver functions that write one channel
ChannelWrites == {"setTriac", "setUOut", "set", "writeU0_10Out", "set_u_out"}
\* a call that addresses one channel of a board (board-wide calls carry 0)
TakesChannel(c) == c.ch # 0 \/ c.fn \in ChannelWrites
Range(seq) == {seq[i] : i \in DOMAIN seq}
\* the declared channel count for the board and the operation of a call
DeclaredCount(c) ==
    CASE c.lib = "megabas" /\ c.fn \in {"setTriac"} -> MegabasTriacs
      [] c.lib = "megabas" /\ c.fn \in {"setUOut", "getUOut"} -> MegabasAnalogOuts
      [] c.lib = "megabas" /\ c.fn \in Range(InputFns) \cup Range(ContactFns) -> MegabasInputs
      [] c.lib = "8relind" -> Relays8
      [] c.lib = "16relind" -> Relays16
      [] c.lib = "16univin" -> UnivInputs
      [] c.lib = "16uout" -> UnivOutputs
      [] OTHER -> 0
ChannelsInRange ==
    \A i \in DOMAIN calls :
        TakesChannel(calls[i].call) => calls[i].call.ch \in 1..DeclaredCount(calls[i].call)

\* C17 (as claimed): a channel index is always within the declared count
\* for the board type and the operation: every channel number handed to a
\* driver read or write is in 1..4 for megabas triacs and analog outputs,
\* 1..8 for megabas inputs and dry contacts, 1..8 for 8relind, 1..16 for
\* 16relind, 16univin reads and 16uout writes, whatever the request.
C17_ChannelInRange ==
    pc # "idle" => ChannelsInRange

\* the same for SequentBoardInterface and the command line of
\* firmware_interface.py
C17_ChannelInRangeInAdapter ==
    (pc # "idle" /\ req.via \in {"api", "cli"}) => ChannelsInRange

\* megabas_interface.py set megabas-analog 0 9 1: setUOut was called for
\* channel 9 of a board that has four analog outputs, and it was the driver
\* that refused
C17_Witness ==
    /\ pc = "done"
    /\ req.via = "script"
    /\ req.argv = <<"set", "megabas-analog", "0", "9", "1">>
    /\ <<"megabas", 0>> \in hw0.present
    /\ Len(calls) = 1
    /\ calls[1].call.fn = "setUOut"
    /\ calls[1].call.ch = 9
    /\ ~calls[1].ok
    /\ IsError(result)

\* no board can be discovered: of the boards on the bus, none has its driver
\* library imported and a probe that answers
NoBoardAnswers ==
    \A s \in hw0.present :
        s[1] \notin boards \/ Key(Probe(s[1], s[2])) \in req.faults

\* C18: emergency_stop with no boards discovered (every probe fails, or no
\* driver library is available) returns exactly {"emergency_stop": true,
\* "results": []} and issues no driver write.
C18_StopWithNoBoards ==
    (pc = "done" /\ req.op = "emergency_stop" /\ NoBoardAnswers)
    => /\ result = [emergency_stop |-> TRUE, results |-> <<>>]
       /\ WriteCalls = {}
       /\ hw = hw0
       /\ req.via = "cli" => (exitCode = 0 /\ stdout[Len(stdout)] = result)

\* emergency_stop with every library imported and an empty bus: each of the
\* probes was made, each raised, and the result is the empty stop report
C18_Witness ==
    /\ pc = "done"
    /\ req.op = "emergency_stop"
    /\ boards = TypeSet
    /\ hw0.present = {}
    /\ Len(calls) = NumStacks * Len(BoardTypes)
    /\ FailedCalls = DOMAIN calls
    /\ result = [emergency_stop |-> TRUE, results |-> <<>>]

\* a scan has returned: the method, the scan command, or a second scan
Scanned == pc \in {"done", "rescan"} /\ req.op = "scan_boards"
\* the (type, stack) pairs a scan has to probe, and those of the list returned
ProbePairs == {<<t, s>> : t \in boards, s \in 0..(NumStacks - 1)}
Listed == {BoardId(result.list[i].type, result.list[i].stack) : i \in DOMAIN result.list}
\* how many times the probe of a pair was called, and whether it answered
ProbesOf(pair) == {i \in DOMAIN calls : calls[i].call = Probe(pair[1], pair[2])}
Answers(pair) ==
    /\ pair \in hw0.present
    /\ Key(Probe(pair[1], pair[2])) \notin req.faults

\* C19: one scan issues exactly one probe for each pair of a stack address
\* in 0..7 and a board type whose driver is available, without retry; a
\* probe that raises counts as 'absent' and never ends the scan, so the list
\* returned is exactly the set of pairs whose probe succeeded; and two scans
\* over unchanged hardware return equal lists, the second probing afresh.
C19_OneProbePerPair ==
    Scanned
    => /\ Len(calls) = Cardinality(ProbePairs)
       /\ \A pair \in ProbePairs : Cardinality(ProbesOf(pair)) = 1
       /\ Listed = {pair \in ProbePairs : Answers(pair)}
       /\ Listed = {pair \in ProbePairs : \A i \in ProbesOf(pair) : calls[i].ok}
       /\ Len(result.list) = Cardinality(Listed)
       /\ ~req.exc
       /\ pc = "rescan" => (result = req.after.result /\ calls = req.after.calls)

\* a second scan of a bus where one of two boards has a probe that raises:
\* the probes after the failing one were made, and the list is that of the
\* first scan
C19_Witness ==
    /\ pc = "rescan"
    /\ boards = TypeSet
    /\ Cardinality(hw0.present) = 2
    /\ Len(result.list) = 1
    /\ \E i \in FailedCalls : <<calls[i].call.lib, calls[i].call.stack>> \in hw0.present
                              /\ \E j \in DOMAIN calls : j > i /\ calls[j].ok
    /\ result = req.after.result

\* the fixed order of the board types at one stack address
TypeOrder == <<"megabas", "8relind", "16relind", "16univin", "16uout">>
TypeRank(t) == CHOOSE i \in DOMAIN TypeOrder : TypeOrder[i] = t
\* (type, stack) a comes before b: a lower stack address, or the same
\* address and an earlier board type
ScanBefore(ta, sa, tb, sb) ==
    sa < sb \/ (sa = sb /\ TypeRank(ta) < TypeRank(tb))

\* C20: discovery is ordered address-major, board-type-minor: the entries of
\* the list returned by scan are in non-decreasing order of stack address,
\* those of one stack address in the order megabas, 8relind, 16relind,
\* 16univin, 16uout, and the probes are issued in that same order.
C20_AddressMajorOrder ==
    Scanned
    => /\ \A i, j \in DOMAIN result.list :
             i < j => ScanBefore(result.list[i].type, result.list[i].stack,
                                 result.list[j].type, result.list[j].stack)
       /\ \A i, j \in DOMAIN calls :
             i < j => ScanBefore(calls[i].call.lib, calls[i].call.stack,
                                 calls[j].call.lib, calls[j].call.stack)

\* a scan that found two boards, the one at the lower address being of the
\* later type: the address decided the order
C20_Witness ==
    /\ Scanned
    /\ Len(result.list) = 2
    /\ result.list[1].stack < result.list[2].stack
    /\ TypeRank(result.list[1].type) > TypeRank(result.list[2].type)
    /\ Len(calls) = NumStacks * Len(TypeOrder)

\* set_relay or set_universal_output was called as a method
RelayOrUnivSet ==
    /\ pc = "done"
    /\ req.via = "api"
    /\ req.op \in {"set_relay", "set_universal_output"}
\* the board types that have relays, and how many
RelayCount(board_type) ==
    CASE board_type = "8relind" -> Relays8
      [] board_type = "16relind" -> Relays16
      [] OTHER -> 0
\* the request names a board type without that capability, a channel the
\* board does not have, or a voltage outside [0 V, 10 V]
InvalidSet ==
    IF req.op = "set_relay"
    THEN req.channel \notin 1..RelayCount(req.board_type)
    ELSE req.channel \notin 1..UnivOutputs \/ OutsideVolts(req.value)
\* the driver write for the (stack, channel) of the request was made
WriteWasMade ==
    \E i \in WriteCalls :
        /\ calls[i].ok
        /\ calls[i].call.lib = TargetOf(req).lib
        /\ calls[i].call.stack = req.stack
        /\ calls[i].call.ch = req.channel

\* C21 (as claimed): set_relay and set_universal_output validate before
\* they call and are scoped to the boards that have the capability: a
\* channel outside the board's range, a voltage outside [0,10] or a
\* set_relay naming a board type without relays returns an {error} without
\* a driver call, and {success: true} is returned only after the driver
\* write for that (stack, channel) was made.
C21_ValidateThenCall ==
    RelayOrUnivSet
    => /\ InvalidSet => (IsError(result) /\ calls = <<>>)
       /\ "success" \in DOMAIN result => WriteWasMade

\* the same when the board type named has relays and the voltage is a number
C21_ValidateThenCallOnRelayBoards ==
    (/\ RelayOrUnivSet
     /\ req.op = "set_relay" => req.board_type \in {"8relind", "16relind"}
     /\ req.op = "set_universal_output" => req.value.t # "nan")
    => /\ InvalidSet => (IsError(result) /\ calls = <<>>)
       /\ "success" \in DOMAIN result => WriteWasMade

\* set_relay('megabas', stack, 1, True) with the megabas library imported:
\* success returned, no error and no driver call
C21_Witness ==
    /\ RelayOrUnivSet
    /\ req.op = "set_relay"
    /\ req.board_type = "megabas"
    /\ req.channel = 1
    /\ req.state
    /\ "megabas" \in boards
    /\ ~IsError(result)
    /\ result.success
    /\ calls = <<>>
    /\ hw = hw0

\* the adapter operations a command name stands for
CommandOps(command) ==
    CASE command = "scan" -> {"scan_boards"}
      [] command = "info" -> {"get_board_info"}
      [] command = "status" -> {"get_megabas_status", "get_relay_status"}
      [] command = "set_output" -> {"set_megabas_output"}
      [] command = "set_relay" -> {"set_relay"}
      [] command = "read_univin" -> {"get_universal_input"}
      [] command = "set_univout" -> {"set_universal_output"}
      [] command = "emergency_stop" -> {"emergency_stop"}
      [] OTHER -> {}
\* a recognized command with all its arguments
Complete(argv) == argv # <<>> /\ argv[1] \in Recognized /\ ~TooFewArgs(argv)
\* the status command names a board type main has a branch for
StatusBranch(argv) == argv[1] = "status" => argv[2] \in {"megabas", "8relind", "16relind"}
\* an operation was invoked by main
Invoked == req.op # "none"
\* the driver calls are those of one operation: none without an operation,
\* at most one for a set, reads of one board for a status or an input read
CallsOfOneOperation ==
    /\ ~Invoked => (calls = <<>> /\ hw = hw0)
    /\ req.op \in SetOps => Len(calls) <= 1
    /\ req.op \in {"get_megabas_status", "get_relay_status", "get_universal_input"}
          => /\ WriteCalls = {}
             /\ \A i, j \in DOMAIN calls :
                   /\ calls[i].call.lib = calls[j].call.lib
                   /\ calls[i].call.stack = calls[j].call.stack
    /\ req.op = "get_board_info" => calls = <<>>
\* one document was printed, the result, and the process has exited
PrintedOnce == Len(stdout) = 1 /\ stdout[1] = result /\ exitCode \in {0, 1}
\* the result of the final else branch
UnknownCommandResult == ErrorResult("Unknown command: {command}", PyNone)

\* C22 (as claimed): the dispatcher maps a command name and its arguments
\* to exactly one adapter operation: for every argument vector main invokes
\* at most one operation, exactly one when the command is recognized and
\* has enough arguments, prints one result and exits, and no command falls
\* through into a second branch.
C22_ExactlyOneWhenComplete ==
    ViaCli
    => /\ Invoked => req.op \in CommandOps(req.argv[1])
       /\ CallsOfOneOperation
       /\ PrintedOnce
       /\ Complete(req.argv) => Invoked

\* C22 (amended): main invokes at most one adapter operation, the one its
\* command names, prints one result and exits, and only an unrecognized
\* command reaches the final else branch.  Exactly one operation is invoked
\* when the command is recognized, has enough arguments, every numeric
\* argument parses and, for status, the board type is megabas, 8relind or
\* 16relind; in every other case none is invoked.
C22_AtMostOneOperation ==
    ViaCli
    => /\ Invoked => req.op \in CommandOps(req.argv[1])
       /\ CallsOfOneOperation
       /\ PrintedOnce
       /\ Invoked <=> (/\ Complete(req.argv)
                       /\ ~BadNumber(req.argv)
                       /\ StatusBranch(req.argv))
       /\ result = UnknownCommandResult <=> UnknownCommand(req.argv)

\* set_relay 8relind 0 1 1 with the board on the bus: set_relay was invoked,
\* made its one write, and its result is the one document printed
C22_Witness ==
    /\ Ran(<<"set_relay", "8relind", "0", "1", "1">>)
    /\ <<"8relind", 0>> \in hw0.present
    /\ req.op = "set_relay"
    /\ Len(calls) = 1
    /\ calls[1].ok
    /\ stdout = <<[success |-> TRUE, channel |-> 1, state |-> TRUE]>>
    /\ exitCode = 0

\* the writes of the last operation that raised, and the board of a call
FailedWrites == {i \in FailedCalls : IsWrite(calls[i].call)}
BoardOfCall(i) == BoardId(calls[i].call.lib, calls[i].call.stack)
\* the channels of the board of call i written before it are at their safe
\* value, the channel of the call and those after it are as they were
KeptFromChannel(i) ==
    LET c      == calls[i].call
        before == hw0.out[BoardOfCall(i)]
        after  == hw.out[BoardOfCall(i)]
        kept(ch) == after.u[ch] = before.u[ch]
        zero(ch) == PyEq(after.u[ch], PyInt(0))
    IN CASE c.fn = "setTriac" ->
              /\ \A ch \in 1..MegabasTriacs :
                    BitSet(after.mask, ch) = (ch >= c.ch /\ BitSet(before.mask, ch))
              /\ after.u = before.u
         [] c.fn = "setUOut" ->
              /\ after.mask = 0
              /\ \A ch \in DOMAIN before.u : IF ch < c.ch THEN zero(ch) ELSE kept(ch)
         [] c.fn = "writeU0_10Out" ->
              /\ \A ch \in DOMAIN before.u : IF ch < c.ch THEN zero(ch) ELSE kept(ch)
         [] OTHER -> after = before
\* the entries of results for a board
EntriesOf(b) == {r \in DOMAIN result.results : result.results[r].board = b}

\* C23: in emergency_stop, when the write of one output of a board raises,
\* no further output of that board is written in that call (the outputs not
\* yet written keep their previous values), exactly one {board, error}
\* entry is appended for that board, and the loop goes on with the next
\* discovered board.
C23_StopLeavesBoardAtFailure ==
    (pc = "done" /\ req.op = "emergency_stop")
    => /\ \A i \in FailedWrites :
             /\ \A j \in DOMAIN calls : j > i => BoardOfCall(j) # BoardOfCall(i)
             /\ KeptFromChannel(i)
             /\ Cardinality(EntriesOf(BoardOfCall(i))) = 1
             /\ \A r \in EntriesOf(BoardOfCall(i)) : "error" \in DOMAIN result.results[r]
       /\ req.visited = Discovered
       /\ \A k \in DOMAIN Discovered :
             (HasOutputs(Discovered[k])
              /\ \A i \in FailedWrites : BoardOfCall(i) # Discovered[k])
             => /\ \E r \in EntriesOf(Discovered[k]) : "status" \in DOMAIN result.results[r]
                /\ hw.out[Discovered[k]].mask = 0

\* a megabas whose setTriac of channel 2 raised: triac 1 is off, triac 3 is
\* still on, the analog outputs are untouched, and the board discovered
\* after it was stopped
C23_Witness ==
    /\ pc = "done"
    /\ req.op = "emergency_stop"
    /\ \E i \in FailedWrites :
          /\ calls[i].call.fn = "setTriac"
          /\ calls[i].call.ch = 2
          /\ BitSet(hw0.out[BoardOfCall(i)].mask, 1)
          /\ ~BitSet(hw.out[BoardOfCall(i)].mask, 1)
          /\ BitSet(hw.out[BoardOfCall(i)].mask, 3)
          /\ hw.out[BoardOfCall(i)].u[1] = hw0.out[BoardOfCall(i)].u[1]
          /\ ~PyEq(hw.out[BoardOfCall(i)].u[1], PyInt(0))
    /\ Len(result.results) = 2
    /\ "error" \in DOMAIN result.results[1]
    /\ result.results[2].status = "stopped"

\* the operations that only read, called as a method or through main
ReadOnlyOps ==
    {"scan_boards", "get_megabas_status", "get_relay_status", "get_universal_input"}
ReadOnlyRan ==
    /\ pc \in {"done", "rescan"}
    /\ req.via \in {"api", "cli"}
    /\ req.op \in ReadOnlyOps
\* the driver functions that change an output
OutputFns == {"setUOut", "setTriac", "set", "set_all", "writeU0_10Out"}

\* C24: scan_boards, get_megabas_status, get_relay_status and
\* get_universal_input are read-only with respect to hardware: they call
\* only driver read functions, never setUOut, setTriac, set, set_all or
\* writeU0_10Out, and every output channel of every board has the same
\* value after the operation as before.
C24_ReadOnlyOperations ==
    ReadOnlyRan
    => /\ \A i \in DOMAIN calls : calls[i].call.fn \notin OutputFns
       /\ WriteCalls = {}
       /\ hw.out = hw0.out
       /\ hw = hw0

\* a status of a megabas with a triac on and an analog output set: all its
\* reads were made and the outputs are as they were
C24_Witness ==
    /\ ReadOnlyRan
    /\ req.via = "api"
    /\ req.op = "get_megabas_status"
    /\ \E s \in 0..(NumStacks - 1) :
          /\ <<"megabas", s>> \in hw0.present
          /\ req.stack = s
          /\ hw0.out[<<"megabas", s>>].mask # 0
          /\ ~PyEq(hw0.out[<<"megabas", s>>].u[1], PyInt(0))
          /\ hw.out[<<"megabas", s>>] = hw0.out[<<"megabas", s>>]
    /\ Len(calls) > MegabasInputs
    /\ FailedCalls = {}
    /\ ~IsError(result)

\* the script's scan has returned
ScriptScanned == pc = "done" /\ req.via = "script" /\ req.op = "scan_all_boards"
\* the entries of the list returned for a stack address
ScanEntriesAt(stack) == {i \in DOMAIN result.list : result.list[i].stack = stack}
\* the expansion types, and the position of one in the order of the imports
ExpansionTypes == {ScriptTypes[i] : i \in DOMAIN ScriptTypes}
ImportRank(t) == CHOOSE i \in DOMAIN ScriptTypes : ScriptTypes[i] = t
\* the imported expansion types whose board is on the bus at stack
Responders(stack) ==
    {t \in ExpansionTypes :
        Imported(boards, t) /\ <<ScriptLib(t), stack>> \in hw0.present}
\* the expansion types probed at stack
ProbedAt(stack) ==
    {t \in ExpansionTypes :
        \E i \in DOMAIN calls : calls[i].call.lib = ScriptLib(t) /\ calls[i].call.stack = stack}

\* C25: scan_all_boards of the script reports a megabas only at stack 0,
\* probed once and never at stacks 1..7, and at most one expansion board per
\* stack address 1..7: at each address the expansion libraries are probed
\* in import order and probing stops at the first that succeeds, so the
\* result never holds two entries with the same stack address and never an
\* expansion board at stack 0.
C25_OneBoardPerStack ==
    ScriptScanned
    => /\ \A i \in DOMAIN result.list :
             (result.list[i].type = "megabas") <=> (result.list[i].stack = 0)
       /\ \A i \in DOMAIN result.list : result.list[i].stack \in 0..(NumStacks - 1)
       /\ Cardinality({i \in DOMAIN calls : calls[i].call.lib = "megabas"}) = 1
       /\ calls[1].call = Read("megabas", "getVer", 0, 0)
       /\ (ScanEntriesAt(0) # {}) <=> (<<"megabas", 0>> \in hw0.present)
       /\ \A i \in DOMAIN calls : calls[i].call.lib # "megabas" => calls[i].call.stack >= 1
       /\ \A stack \in 0..(NumStacks - 1) : Cardinality(ScanEntriesAt(stack)) <= 1
       /\ \A stack \in 1..(NumStacks - 1) :
             /\ (ScanEntriesAt(stack) # {}) <=> (Responders(stack) # {})
             /\ \A i \in ScanEntriesAt(stack) :
                   /\ result.list[i].type \in Responders(stack)
                   /\ \A t \in Responders(stack) :
                         ImportRank(result.list[i].type) <= ImportRank(t)
                   /\ \A t \in ProbedAt(stack) :
                         ImportRank(t) <= ImportRank(result.list[i].type)
             /\ ScanEntriesAt(stack) = {}
                   => ProbedAt(stack) = {t \in ExpansionTypes : Imported(boards, t)}
       /\ hw = hw0

\* an 8-relay and a 16-relay board at the same address: the scan lists the
\* 8-relay board alone, and the 16-relay library, probed at the empty
\* address 1, was not probed at that address
C25_Witness ==
    /\ ScriptScanned
    /\ \E stack \in 1..(NumStacks - 1) :
          /\ {<<"8relind", stack>>, <<"16relind", stack>>} \subseteq hw0.present
          /\ {"8relind", "16relind"} \subseteq boards
          /\ result.list = <<[type |-> "8relay", stack |-> stack]>>
          /\ "16relay" \notin ProbedAt(stack)
          /\ "16relay" \in ProbedAt(1)

----------------------------------------------------------------------------
(* installer/install-automata-nexus-rpi5-smart.py: SmartInstallerRPi5.      *)
(* The commands the installer runs (lsblk, parted, mkfs.ext4, mount, rsync, *)
(* apt, systemctl) are the environment: each either succeeds or exits with  *)
(* a non-zero code, which run_command turns into an exception.              *)

\* the object as __init__ leaves it before setup_gui's first detection: the
\* fields, the widgets' variables, the thread (its mode argument and the
\* steps it still has to make), the commands run and the dialogs shown
SmartInstallerRPi5 ==
    [install_mode |-> "detect", ssd_device |-> "None", ssd_mounted |-> FALSE,
     existing_os |-> FALSE, install_btn |-> "normal",
     backup_sd |-> TRUE, optimize_ssd |-> TRUE, enable_monitoring |-> TRUE,
     thread |-> "none", todo |-> <<>>, commands |-> <<>>, dialogs |-> {}]

\* detect_ssd_setup: nvme, lsblk lists an NVMe device; mount is what
\* check_mount_status finds on it: "none", "data" or "os"
detect_ssd_setup(self, nvme, mount) ==
    IF nvme
    THEN LET mounted == mount # "none"
             has_os  == IF mounted THEN mount = "os" ELSE self.existing_os
         IN [self EXCEPT !.ssd_device = "/dev/nvme0n1",
                         !.ssd_mounted = mounted,
                         !.existing_os = has_os,
                         !.install_mode = IF mounted /\ has_os THEN "existing"
                                          ELSE IF mounted THEN "dual" ELSE "new"]
    ELSE [self EXCEPT !.install_btn = "disabled"]

\* The steps of the thread are pairs: the command or method run, and the
\* check box that has to be ticked for it to run ("always" for the others).
\* partition_ssd: the two parted commands, then mkfs.ext4
partition_ssd ==
    <<<<"parted mklabel gpt", "always">>, <<"parted mkpart", "always">>,
      <<"mkfs.ext4 -F", "always">>>>
\* install_on_existing_ssd
install_on_existing_ssd ==
    <<<<"makedirs", "always">>, <<"install_dependencies", "always">>,
      <<"install_application", "always">>,
      <<"apply_ssd_optimizations", "optimize_ssd">>,
      <<"setup_service", "always">>, <<"setup_monitoring", "enable_monitoring">>>>
\* setup_new_ssd
setup_new_ssd ==
    <<<<"backup_sd_card", "backup_sd">>>> \o partition_ssd \o
    <<<<"mount_ssd", "always">>, <<"migrate_os_to_ssd", "always">>,
      <<"update_boot_config", "always">>, <<"install_application", "always">>,
      <<"setup_service", "always">>>>
\* run_installation(mode): the try block's branch
run_installation(mode) ==
    CASE mode = "existing" -> install_on_existing_ssd
      [] mode = "new"      -> setup_new_ssd
      [] mode = "dual"     -> install_on_existing_ssd
      [] OTHER             -> <<>>

\* (mutant) the format is not confirmed: the thread starts whatever the answer
start_installation_unconfirmed(self, answer) ==
    LET mode == self.install_mode IN
    IF mode = "detect"
    THEN [self EXCEPT !.dialogs = @ \cup {[title |-> "Select Mode", answer |-> "ok"]}]
    ELSE IF self.ssd_device = "None" /\ mode # "existing"
    THEN [self EXCEPT !.dialogs = @ \cup {[title |-> "No SSD", answer |-> "ok"]}]
    ELSE [self EXCEPT !.dialogs = IF mode = "new"
                                  THEN @ \cup {[title |-> "Confirm Format", answer |-> answer]}
                                  ELSE @,
                      !.install_btn = "disabled",
                      !.thread = mode,
                      !.todo = run_installation(mode)]

\* start_installation: answer is what the user answers should askyesno be shown
start_installation(self, answer) ==
    LET mode == self.install_mode IN
    IF mode = "detect"
    THEN [self EXCEPT !.dialogs = @ \cup {[title |-> "Select Mode", answer |-> "ok"]}]
    ELSE IF self.ssd_device = "None" /\ mode # "existing"
    THEN [self EXCEPT !.dialogs = @ \cup {[title |-> "No SSD", answer |-> "ok"]}]
    ELSE IF mode = "new" /\ answer = "no"
    THEN [self EXCEPT !.dialogs = @ \cup {[title |-> "Confirm Format", answer |-> "no"]}]
    ELSE [self EXCEPT !.dialogs = IF mode = "new"
                                  THEN @ \cup {[title |-> "Confirm Format", answer |-> "yes"]}
                                  ELSE @,
                      !.install_btn = "disabled",
                      !.thread = mode,
                      !.todo = run_installation(mode)]

\* no board on the bus and no invocation of the adapter
AdapterNotRun ==
    /\ boards = {}
    /\ hw \in {b \in Buses : b.present = {}}
    /\ pc = "idle"
    /\ req = [op |-> "none", via |-> "none"]
    /\ result = [none |-> TRUE]
    /\ calls = <<>>
    /\ hw0 = hw
    /\ configs = board_configs
    /\ exitCode = -1
    /\ stdout = <<>>

\* the installer as setup_gui leaves it: the first detection has run
SmartInit ==
    /\ installer \in {detect_ssd_setup(SmartInstallerRPi5, nvme, mount) :
                        nvme \in BOOLEAN, mount \in {"none", "data", "os"}}
    /\ AdapterNotRun
    /\ nexusInstaller = NotRun
    /\ uninstaller = NotRun
    /\ hvac = NotRun
    /\ i2c = NotRun

\* the Refresh button
DetectSsd ==
    /\ \E nvme \in BOOLEAN, mount \in {"none", "data", "os"} :
          installer' = detect_ssd_setup(installer, nvme, mount)
    /\ UNCHANGED notInstaller

\* a radio button of the installation mode
SelectMode ==
    /\ \E mode \in {"existing", "new", "dual"} :
          installer' = [installer EXCEPT !.install_mode = mode]
    /\ UNCHANGED notInstaller

\* a check box of the options
ToggleOption ==
    /\ \E option \in {"backup_sd", "optimize_ssd", "enable_monitoring"} :
          installer' = [installer EXCEPT ![option] = ~@]
    /\ UNCHANGED notInstaller

\* the Start Installation button, which a disabled button does not deliver
StartInstallation ==
    /\ installer.install_btn = "normal"
    /\ \E answer \in {"yes", "no"} :
          installer' = start_installation(installer, answer)
    /\ UNCHANGED notInstaller

\* the thread makes its next step: a step whose check box is not ticked is
\* passed over; a command that fails raises, which ends the thread with
\* the 'Installation Failed' dialog; after the last step, 'Success'
RunStep ==
    /\ installer.todo # <<>>
    /\ LET step == Head(installer.todo)
           rest == Tail(installer.todo)
           done(self) == IF rest = <<>>
                         THEN [self EXCEPT !.dialogs = @ \cup {[title |-> "Success", answer |-> "ok"]}]
                         ELSE self
       IN IF step[2] # "always" /\ ~installer[step[2]]
          THEN installer' = done([installer EXCEPT !.todo = rest])
          ELSE \E ok \in BOOLEAN :
                 installer' =
                    IF ok
                    THEN done([installer EXCEPT !.todo = rest,
                                                !.commands = Append(@, [cmd |-> step[1], ok |-> TRUE])])
                    ELSE [installer EXCEPT
                            !.todo = <<>>,
                            !.commands = Append(@, [cmd |-> step[1], ok |-> FALSE]),
                            !.dialogs = @ \cup {[title |-> "Installation Failed", answer |-> "ok"]}]
    /\ UNCHANGED notInstaller

SmartNext ==
    \/ DetectSsd
    \/ SelectMode
    \/ ToggleOption
    \/ StartInstallation
    \/ RunStep

SmartSpec == SmartInit /\ [][SmartNext]_vars

\* the commands that partition or format, and those of them that were run
Destructive == {"parted mklabel gpt", "parted mkpart", "mkfs.ext4 -F"}
DestructiveRun ==
    {i \in DOMAIN installer.commands : installer.commands[i].cmd \in Destructive}
Confirmed == [title |-> "Confirm Format", answer |-> "yes"] \in installer.dialogs

\* C26: in the smart installer the destructive steps (partition_ssd, mkfs)
\* are reached only when installation mode 'new' is selected, an SSD device
\* has been detected and the user answered yes to the format confirmation;
\* in modes 'existing' and 'dual', and whenever the confirmation is declined
\* or no SSD is detected, no partition or format command is ever run.
C26_FormatOnlyWhenConfirmed ==
    /\ DestructiveRun # {}
          => /\ installer.thread = "new"
             /\ installer.ssd_device # "None"
             /\ Confirmed
    /\ installer.thread \in {"existing", "dual"} => DestructiveRun = {}
    /\ ~Confirmed => (DestructiveRun = {} /\ installer.thread # "new")
    /\ installer.ssd_device = "None" => (DestructiveRun = {} /\ installer.thread = "none")

\* the format was declined once and confirmed at the second start: the
\* three commands of partition_ssd were run, in order, after the backup
C26_Witness ==
    /\ installer.thread = "new"
    /\ [title |-> "Confirm Format", answer |-> "no"] \in installer.dialogs
    /\ Confirmed
    /\ Len(installer.commands) >= 4
    /\ installer.commands[1].cmd = "backup_sd_card"
    /\ installer.commands[2].cmd = "parted mklabel gpt"
    /\ installer.commands[3].cmd = "parted mkpart"
    /\ installer.commands[4] = [cmd |-> "mkfs.ext4 -F", ok |-> TRUE]

----------------------------------------------------------------------------
(* installer/install-automata-nexus.py: AutomataNexusInstaller.  The        *)
(* commands the components run are the environment: a component returns,    *)
(* or one of its commands fails and run_command raises.                     *)

\* self.components, by name
components ==
    <<"System Update", "Timezone & Time Sync", "Increase Swap Size", "I2C Interface",
      "Python 3 & pip", "Node.js 18+", "Rust Toolchain", "System Dependencies",
      "Python Libraries", "Sequent Microsystems Drivers", "Control Center Application",
      "Systemd Service", "Permissions & Groups">>
\* setup_timezone, increase_swap_size and install_python_libs catch what
\* their commands raise and log a warning: they always return
CatchesItsOwn == {"Timezone & Time Sync", "Increase Swap Size", "Python Libraries"}

\* the object when the license page is shown: the check box, the thread's
\* position, the components run with their outcome, the callbacks handed to
\* root.after and how many of them the main loop has run, the dialogs shown
AutomataNexusInstaller ==
    [agree_var |-> FALSE, thread |-> "none", current_step |-> 0, ran |-> <<>>,
     after |-> <<>>, handled |-> 0, status_label |-> "", dialogs |-> <<>>]

\* what the thread's next step can meet: a failing os.makedirs, a component
\* that returns ("ok"), returns after a warning ("warned") or raises
Outcomes(self) ==
    IF self.thread = "makedirs" THEN {"ok", "raised"}
    ELSE IF self.current_step = Len(components) THEN {"ok"}
    ELSE IF components[self.current_step + 1] \in CatchesItsOwn THEN {"ok", "warned"}
    ELSE {"ok", "raised"}

\* (mutant) the except clause of the loop logs the failure and does not
\* raise again: the loop goes on with the next component
run_installation_logging(self, outcome) ==
    IF self.thread = "makedirs"
    THEN IF outcome = "raised"
         THEN [self EXCEPT !.thread = "ended",
                           !.after = Append(@, "showerror Installation Failed")]
         ELSE [self EXCEPT !.thread = "loop"]
    ELSE IF self.current_step < Len(components)
    THEN LET name == components[self.current_step + 1]
         IN [self EXCEPT !.current_step = @ + 1,
                         !.after = Append(@, "update_progress " \o name),
                         !.ran = Append(@, [name |-> name, outcome |-> outcome])]
    ELSE [self EXCEPT !.thread = "ended", !.after = Append(@, "installation_complete")]

\* run_installation, one step of the thread: os.makedirs, then one
\* component per turn of the for loop, then what follows the loop; failed
\* is the outer except clause: root.after(0, showerror('Installation Failed'))
nexus_run_installation(self, outcome) ==
    LET failed(obj) == [obj EXCEPT !.thread = "ended",
                                   !.after = Append(@, "showerror Installation Failed")]
    IN
    IF self.thread = "makedirs"
    THEN IF outcome = "raised" THEN failed(self)
         ELSE [self EXCEPT !.thread = "loop"]
    ELSE IF self.current_step < Len(components)
    THEN LET name == components[self.current_step + 1]
             called == [self EXCEPT !.current_step = @ + 1,
                                    !.after = Append(@, "update_progress " \o name),
                                    !.ran = Append(@, [name |-> name, outcome |-> outcome])]
         IN IF outcome = "raised" THEN failed(called) ELSE called
    ELSE [self EXCEPT !.thread = "ended", !.after = Append(@, "installation_complete")]

NexusInit ==
    /\ nexusInstaller = AutomataNexusInstaller
    /\ AdapterNotRun
    /\ installer = NotRun
    /\ uninstaller = NotRun
    /\ hvac = NotRun
    /\ i2c = NotRun

\* the check box of the license page, which enables the Continue button
Agree ==
    /\ nexusInstaller.thread = "none"
    /\ nexusInstaller' = [nexusInstaller EXCEPT !.agree_var = ~@]
    /\ UNCHANGED notNexusInstaller

\* the Continue button: start_installation replaces the license page by the
\* progress page and starts the thread
NexusStartInstallation ==
    /\ nexusInstaller.thread = "none"
    /\ nexusInstaller.agree_var
    /\ nexusInstaller' = [nexusInstaller EXCEPT !.thread = "makedirs"]
    /\ UNCHANGED notNexusInstaller

\* the thread makes its next step
NexusThread ==
    /\ nexusInstaller.thread \in {"makedirs", "loop"}
    /\ \E outcome \in Outcomes(nexusInstaller) :
          nexusInstaller' = nexus_run_installation(nexusInstaller, outcome)
    /\ UNCHANGED notNexusInstaller

\* the main loop runs the next callback handed to root.after
MainLoop ==
    /\ nexusInstaller.handled < Len(nexusInstaller.after)
    /\ LET callback == nexusInstaller.after[nexusInstaller.handled + 1]
       IN nexusInstaller' =
             [nexusInstaller EXCEPT
                !.handled = @ + 1,
                !.status_label = IF callback \in {"installation_complete",
                                                  "showerror Installation Failed"}
                                 THEN @ ELSE callback,
                !.dialogs = IF callback = "installation_complete"
                            THEN Append(@, "Installation Complete")
                            ELSE IF callback = "showerror Installation Failed"
                            THEN Append(@, "Installation Failed")
                            ELSE @]
    /\ UNCHANGED notNexusInstaller

NexusNext ==
    \/ Agree
    \/ NexusStartInstallation
    \/ NexusThread
    \/ MainLoop

NexusSpec == NexusInit /\ [][NexusNext]_vars

\* the components that raised, and whether a callback was handed to root.after
Raised == {i \in DOMAIN nexusInstaller.ran : nexusInstaller.ran[i].outcome = "raised"}
Scheduled(callback) ==
    \E i \in DOMAIN nexusInstaller.after : nexusInstaller.after[i] = callback

\* C27: run_installation runs the components in list order and stops at the
\* first component that raises: no component after the failing one is
\* executed, installation_complete is never scheduled and an 'Installation
\* Failed' error dialog is scheduled instead; installation_complete is
\* scheduled only after all components returned without raising.
C27_StopsAtFirstFailure ==
    LET ran == nexusInstaller.ran IN
    /\ Len(ran) <= Len(components)
    /\ \A i \in DOMAIN ran : ran[i].name = components[i]
    /\ \A i \in Raised :
          /\ i = Len(ran)
          /\ nexusInstaller.thread = "ended"
          /\ ~Scheduled("installation_complete")
          /\ Scheduled("showerror Installation Failed")
    /\ Scheduled("installation_complete")
          => /\ Len(ran) = Len(components)
             /\ Raised = {}
             /\ ~Scheduled("showerror Installation Failed")
    /\ (nexusInstaller.thread = "ended" /\ Raised = {} /\ Len(ran) = Len(components))
          => Scheduled("installation_complete")
    /\ \A d \in DOMAIN nexusInstaller.dialogs :
          nexusInstaller.dialogs[d] = "Installation Complete" => Raised = {}

\* the fourth component raised after the second had returned with a
\* warning: four components were run, and the main loop has shown the
\* 'Installation Failed' dialog
C27_Witness ==
    /\ Len(nexusInstaller.ran) = 4
    /\ nexusInstaller.ran[2].outcome = "warned"
    /\ nexusInstaller.ran[4] = [name |-> "I2C Interface", outcome |-> "raised"]
    /\ nexusInstaller.thread = "ended"
    /\ nexusInstaller.dialogs = <<"Installation Failed">>

----------------------------------------------------------------------------
(* installer/uninstall-automata-nexus.py: AutomataNexusUninstaller.  The    *)
(* file system and the commands are the environment: a path exists or not,  *)
(* and os.remove, shutil.rmtree or a command may fail.                      *)

\* self.components: the name of each step, the path it removes, whether it
\* lets an exception out (stop_services, remove_python_libs, remove_user and
\* cleanup catch everything), and whether it first tests preserve_data_var
uninstall_components ==
    <<[name |-> "Stop Services", path |-> "", raises |-> FALSE, data |-> FALSE],
      [name |-> "Remove Systemd Service",
       path |-> "/etc/systemd/system/automata-nexus-control-center.service",
       raises |-> TRUE, data |-> FALSE],
      [name |-> "Remove Application Files", path |-> "/opt/automata-nexus",
       raises |-> TRUE, data |-> FALSE],
      [name |-> "Remove Configuration", path |-> "/etc/automata-nexus",
       raises |-> TRUE, data |-> TRUE],
      [name |-> "Remove User Data", path |-> "/var/lib/automata-nexus",
       raises |-> TRUE, data |-> TRUE],
      [name |-> "Remove Python Libraries", path |-> "", raises |-> FALSE, data |-> FALSE],
      [name |-> "Remove User & Groups", path |-> "", raises |-> FALSE, data |-> FALSE],
      [name |-> "Clean Up", path |-> "/var/log/automata-nexus", raises |-> FALSE,
       data |-> FALSE]>>

\* the object when the confirmation page is shown; euid is os.geteuid()
AutomataNexusUninstaller(euid) ==
    [euid |-> euid, preserve_data_var |-> TRUE, thread |-> "none", current_step |-> 0,
     ran |-> <<>>, removed |-> {}, after |-> <<>>, dialogs |-> <<>>]

\* (mutant) the except clause of the loop lets the exception go on to the
\* outer one: the first step that raises ends the uninstall
run_uninstall_raising(self, outcome) ==
    IF self.thread = "start"
    THEN IF self.euid # 0
         THEN [self EXCEPT !.thread = "ended", !.dialogs = Append(@, "Error")]
         ELSE [self EXCEPT !.thread = "loop"]
    ELSE IF self.current_step < Len(uninstall_components)
    THEN LET c == uninstall_components[self.current_step + 1]
             called == [self EXCEPT !.current_step = @ + 1,
                                    !.after = Append(@, "update_progress " \o c.name),
                                    !.ran = Append(@, [name |-> c.name, outcome |-> outcome]),
                                    !.removed = IF outcome = "ok" /\ c.path # ""
                                                THEN @ \cup {c.path} ELSE @]
         IN IF outcome = "raised"
            THEN [called EXCEPT !.thread = "ended",
                                !.after = Append(@, "showerror Uninstall Failed")]
            ELSE called
    ELSE [self EXCEPT !.thread = "ended", !.after = Append(@, "uninstall_complete")]

\* run_uninstall, one step of the thread: the check of the user id, then
\* one removal step per turn of the for loop, then what follows the loop.
\* outcome: "ok", the step did its work; "absent", it found nothing to
\* remove; "kept", it preserved the data; "raised", it raised
run_uninstall(self, outcome) ==
    IF self.thread = "start"
    THEN IF self.euid # 0
         THEN [self EXCEPT !.thread = "ended", !.dialogs = Append(@, "Error")]
         ELSE [self EXCEPT !.thread = "loop"]
    ELSE IF self.current_step < Len(uninstall_components)
    THEN LET c == uninstall_components[self.current_step + 1]
         IN [self EXCEPT !.current_step = @ + 1,
                         !.after = Append(@, "update_progress " \o c.name),
                         !.ran = Append(@, [name |-> c.name, outcome |-> outcome]),
                         !.removed = IF outcome = "ok" /\ c.path # ""
                                     THEN @ \cup {c.path} ELSE @]
    ELSE [self EXCEPT !.thread = "ended", !.after = Append(@, "uninstall_complete")]

UninstallInit ==
    /\ uninstaller \in {AutomataNexusUninstaller(euid) : euid \in {0, 1000}}
    /\ AdapterNotRun
    /\ installer = NotRun
    /\ nexusInstaller = NotRun
    /\ hvac = NotRun
    /\ i2c = NotRun

\* the check box 'Preserve user data and configuration files'
TogglePreserve ==
    /\ uninstaller.thread = "none"
    /\ uninstaller' = [uninstaller EXCEPT !.preserve_data_var = ~@]
    /\ UNCHANGED notUninstaller

\* the Uninstall button: start_uninstall replaces the confirmation page by
\* the progress page and starts the thread
StartUninstall ==
    /\ uninstaller.thread = "none"
    /\ uninstaller' = [uninstaller EXCEPT !.thread = "start"]
    /\ UNCHANGED notUninstaller

\* the thread makes its next step
UninstallThread ==
    /\ uninstaller.thread \in {"start", "loop"}
    /\ LET i == uninstaller.current_step + 1
           outcomes ==
              IF uninstaller.thread = "start" \/ i > Len(uninstall_components)
              THEN {"ok"}
              ELSE IF uninstall_components[i].data /\ uninstaller.preserve_data_var
              THEN {"kept"}
              ELSE IF uninstall_components[i].raises THEN {"ok", "absent", "raised"}
              ELSE {"ok"}
       IN \E outcome \in outcomes : uninstaller' = run_uninstall(uninstaller, outcome)
    /\ UNCHANGED notUninstaller

UninstallNext ==
    \/ TogglePreserve
    \/ StartUninstall
    \/ UninstallThread

UninstallSpec == UninstallInit /\ [][UninstallNext]_vars

\* the thread has returned; the names of the steps it ran
UninstallEnded == uninstaller.thread = "ended"
StepsRun == [i \in DOMAIN uninstaller.ran |-> uninstaller.ran[i].name]
AllSteps == [i \in DOMAIN uninstall_components |-> uninstall_components[i].name]

\* C28: run_uninstall, when run as root, executes all 8 removal steps in
\* list order regardless of which steps raise and then always schedules
\* uninstall_complete; when not run as root it executes no removal step;
\* and when 'preserve data' is selected no step removes the configuration
\* directory or the user-data directory.
C28_AllStepsThenComplete ==
    /\ StepsRun = SubSeq(AllSteps, 1, Len(uninstaller.ran))
    /\ (UninstallEnded /\ uninstaller.euid = 0)
          => /\ StepsRun = AllSteps
             /\ Len(StepsRun) = 8
             /\ uninstaller.after[Len(uninstaller.after)] = "uninstall_complete"
             /\ \A i \in DOMAIN uninstaller.after :
                   uninstaller.after[i] # "showerror Uninstall Failed"
    /\ (\E i \in DOMAIN uninstaller.after : uninstaller.after[i] = "uninstall_complete")
          => (UninstallEnded /\ uninstaller.euid = 0)
    /\ uninstaller.euid # 0
          => /\ uninstaller.ran = <<>>
             /\ uninstaller.removed = {}
             /\ uninstaller.after = <<>>
             /\ UninstallEnded => uninstaller.dialogs = <<"Error">>
    /\ uninstaller.preserve_data_var
          => /\ "/etc/automata-nexus" \notin uninstaller.removed
             /\ "/var/lib/automata-nexus" \notin uninstaller.removed
             /\ \A i \in DOMAIN uninstaller.ran :
                   uninstall_components[i].data => uninstaller.ran[i].outcome = "kept"

\* as root with the data preserved: removing the service file raised, the
\* six steps after it were run all the same, the application directory is
\* removed, the configuration is not, and uninstall_complete is scheduled
C28_Witness ==
    /\ UninstallEnded
    /\ uninstaller.euid = 0
    /\ uninstaller.preserve_data_var
    /\ uninstaller.ran[2].outcome = "raised"
    /\ Len(uninstaller.ran) = 8
    /\ uninstaller.removed = {"/opt/automata-nexus", "/var/log/automata-nexus"}
    /\ uninstaller.after[Len(uninstaller.after)] = "uninstall_complete"

----------------------------------------------------------------------------
(* building-automation-v0/scripts/sensor_interface.py:                      *)
(* HVACDiagnosticInterface.  megabas.getUIn is the environment: it returns  *)
(* the voltage of the input, a 16-bit count of millivolts, or raises (no    *)
(* board at the stack level, a channel outside 1..8, a bus error).          *)
(* Voltages are in millivolts, pressures in hundredths of a psi.            *)

\* P499TransducerConfig.PRESSURE_RANGES: min and max in psi
PRESSURE_RANGES ==
    [P499VAP_101C |-> [min |-> 0, max |-> 100],
     P499VAP_102C |-> [min |-> 0, max |-> 200],
     P499VAP_105C |-> [min |-> 0, max |-> 500],
     P499VAP_107C |-> [min |-> 0, max |-> 750],
     P499VAPS100C |-> [min |-> -10, max |-> 100]]

\* voltage_to_pressure: raises outside 0..10 V, otherwise
\* round(min + (voltage / 10.0) * (max - min), 2); the voltages offered are
\* multiples of 0.1 V, for which the product is a whole number of hundredths
voltage_to_pressure(model, voltage) ==
    IF voltage < 0 \/ voltage > 10000
    THEN [raised |-> TRUE, value |-> 0]
    ELSE [raised |-> FALSE,
          value |-> PRESSURE_RANGES[model].min * 100
                    + (voltage * (PRESSURE_RANGES[model].max - PRESSURE_RANGES[model].min))
                      \div 100]

\* HVACDiagnosticInterface.__init__: the four default transducers, nothing
\* read yet; returned is what the last call of read_single_pressure handed
\* back, read what megabas.getUIn did in it, now the clock
HVACDiagnosticInterface ==
    [transducer_configs |-> [channel \in 1..4 |->
                                IF channel <= 2 THEN "P499VAP_105C" ELSE "P499VAP_101C"],
     last_readings |-> <<>>,
     returned |-> [none |-> TRUE],
     read |-> [raised |-> FALSE, value |-> 0],
     now |-> 0]

\* the reading of the except clause
error_reading(channel, now) ==
    [channel |-> channel, voltage |-> 0, pressure |-> 0, model |-> "Unknown",
     range |-> "Unknown", timestamp |-> now, status |-> "ERROR", error |-> "str(e)"]

\* (mutant) the reading is stored as soon as the voltage is read, with the
\* pressure filled in afterwards: a failed conversion leaves an entry behind
read_single_pressure_early(self, channel, read) ==
    LET configured == channel \in DOMAIN self.transducer_configs
        stored == [self EXCEPT !.last_readings =
                      [c \in DOMAIN @ \cup {channel} |->
                          IF c = channel
                          THEN [channel |-> channel, voltage |-> read.value, pressure |-> 0,
                                model |-> "Unknown", range |-> "Unknown",
                                timestamp |-> self.now, status |-> "OK"]
                          ELSE @[c]]]
    IN IF read.raised THEN [self EXCEPT !.returned = error_reading(channel, self.now)]
       ELSE IF ~configured
       THEN [stored EXCEPT !.returned = error_reading(channel, self.now)]
       ELSE LET model == self.transducer_configs[channel]
                p == voltage_to_pressure(model, read.value)
                reading == [channel |-> channel, voltage |-> read.value,
                            pressure |-> p.value, model |-> model,
                            range |-> PRESSURE_RANGES[model], timestamp |-> self.now,
                            status |-> "OK"]
            IN IF p.raised
               THEN [stored EXCEPT !.returned = error_reading(channel, self.now)]
               ELSE [self EXCEPT !.returned = reading,
                                 !.last_readings =
                                    [c \in DOMAIN @ \cup {channel} |->
                                        IF c = channel THEN reading ELSE @[c]]]

\* read_single_pressure: read is what megabas.getUIn does, [raised, value]
read_single_pressure(self, channel, read) ==
    IF read.raised \/ channel \notin DOMAIN self.transducer_configs
    THEN [self EXCEPT !.returned = error_reading(channel, self.now)]
    ELSE LET model == self.transducer_configs[channel]
             p == voltage_to_pressure(model, read.value)
             reading == [channel |-> channel, voltage |-> read.value,
                         pressure |-> p.value, model |-> model,
                         range |-> PRESSURE_RANGES[model], timestamp |-> self.now,
                         status |-> "OK"]
         IN IF p.raised
            THEN [self EXCEPT !.returned = error_reading(channel, self.now)]
            ELSE [self EXCEPT !.returned = reading,
                              !.last_readings =
                                 [c \in DOMAIN @ \cup {channel} |->
                                     IF c = channel THEN reading ELSE @[c]]]

HvacInit ==
    /\ hvac = HVACDiagnosticInterface
    /\ AdapterNotRun
    /\ installer = NotRun
    /\ nexusInstaller = NotRun
    /\ uninstaller = NotRun
    /\ i2c = NotRun

\* configure_transducer(channel, model) with a channel in 1..8 and a known
\* model: the 'configure' command
ConfigureTransducer ==
    /\ \E channel \in {1, 5}, model \in {"P499VAPS100C"} :
          hvac' = [hvac EXCEPT !.transducer_configs =
                      [c \in DOMAIN @ \cup {channel} |-> IF c = channel THEN model ELSE @[c]]]
    /\ UNCHANGED notHvac

\* read_single_pressure(channel), for a channel the board does not have, a
\* default transducer, and a channel that has a transducer only once it is
\* configured: the input reads 5 V, 10 V or 10.1 V, or megabas.getUIn
\* raises, which it always does for channel 0
ReadSinglePressure ==
    /\ hvac.now < MaxReads
    /\ \E channel \in {0, 1, 5} :
       \E read \in {[raised |-> TRUE, value |-> 0]}
                   \cup (IF channel \in 1..8
                         THEN {[raised |-> FALSE, value |-> v] : v \in {5000, 10000, 10100}}
                         ELSE {}) :
          hvac' = [read_single_pressure(hvac, channel, read)
                      EXCEPT !.now = @ + 1, !.read = read]
    /\ UNCHANGED notHvac

HvacNext ==
    \/ ConfigureTransducer
    \/ ReadSinglePressure

HvacSpec == HvacInit /\ [][HvacNext]_vars

\* C29: read_single_pressure never raises: when the driver read fails, the
\* channel has no transducer configured, or the read voltage is outside
\* [0,10], it returns a reading with status ERROR (voltage 0.0, pressure
\* 0.0) and leaves last_readings unchanged; on success it returns status OK
\* and sets last_readings[channel] to exactly the returned reading, leaving
\* the entries of all other channels unchanged.
C29_ReadSinglePressure ==
    [][hvac'.now = hvac.now + 1
         => LET ret == hvac'.returned
                channel == ret.channel
                read == hvac'.read
                before == hvac.last_readings
                after == hvac'.last_readings
                failed == \/ read.raised
                          \/ channel \notin DOMAIN hvac.transducer_configs
                          \/ read.value \notin 0..10000
            IN /\ ret.status = IF failed THEN "ERROR" ELSE "OK"
               /\ failed
                     => /\ ret.voltage = 0 /\ ret.pressure = 0
                        /\ after = before
               /\ ~failed
                     => /\ ret.voltage = read.value
                        /\ ret.model = hvac.transducer_configs[channel]
                        /\ ret.pressure = voltage_to_pressure(ret.model, ret.voltage).value
                        /\ DOMAIN after = DOMAIN before \cup {channel}
                        /\ after[channel] = ret
                        /\ \A c \in DOMAIN before : c # channel => after[c] = before[c]]_vars

\* channel 1 was read at 10 V (500 psi on the 0-500 psi transducer), then
\* channel 5, configured as a -10..100 psi transducer, at 5 V (45 psi),
\* then channel 1 read 10.1 V: an ERROR reading came back and both entries
\* are as they were
C29_Witness ==
    /\ hvac.now = 3
    /\ hvac.returned = error_reading(1, 2)
    /\ hvac.read = [raised |-> FALSE, value |-> 10100]
    /\ DOMAIN hvac.last_readings = {1, 5}
    /\ hvac.last_readings[1].pressure = 50000
    /\ hvac.last_readings[1].timestamp = 0
    /\ hvac.last_readings[5].pressure = 4500
    /\ hvac.last_readings[5].status = "OK"

----------------------------------------------------------------------------
(* refrigerant-diagnostic-monitor/scripts/sm_4_20ma.py.  The smbus library  *)
(* and the HAT are the environment: smbus.SMBus(1) opens a handle or        *)
(* raises, a register read or write succeeds or raises.                     *)

\* ANALOG_IN_CH_NO = 8; ANALOG_VAL_MAX = 4095, the 12-bit ADC
ANALOG_IN_CH_NO == 8
ANALOG_VAL_MAX == 4095

\* what the environment does in one call: the bus cannot be opened, the
\* first or the second register access raises, or all succeed, the read
\* returning the raw ADC count
BusOutcomes ==
    {[io |-> io, raw |-> 0] : io \in {"no bus", "first fails", "second fails"}}
    \cup {[io |-> "ok", raw |-> raw] : raw \in {0, ANALOG_VAL_MAX}}

\* bus = smbus.SMBus(1): one more handle, open; handles keeps for every
\* handle the number of the call that opened it.  With close, bus.close()
\* is reached as well.
Opened(self, close) ==
    [self EXCEPT !.handles = Append(@, self.calls + 1),
                 !.open = IF close THEN @ ELSE @ \cup {Len(self.handles) + 1}]
\* the function returns a value (raised FALSE), or an exception leaves it
Leaves(self, fn, raised, value) ==
    [self EXCEPT !.returned = [fn |-> fn, raised |-> raised, value |-> value], !.calls = @ + 1]

\* get_0_10v and get_4_20ma: scale is 10.0 or 20.0, in thousandths
ReadInput(self, fn, scale, stack_level, channel, env) ==
    IF channel < 0 \/ channel >= ANALOG_IN_CH_NO
    THEN Leaves(self, fn, TRUE, "Invalid channel")
    ELSE IF stack_level < 0 \/ stack_level > 7
    THEN Leaves(self, fn, TRUE, "Invalid stack level")
    ELSE IF env.io = "no bus" THEN Leaves(self, fn, TRUE, "Failed to read")
    ELSE IF env.io # "ok" THEN Leaves(Opened(self, FALSE), fn, TRUE, "Failed to read")
    ELSE Leaves(Opened(self, TRUE), fn, FALSE, (env.raw * scale) \div ANALOG_VAL_MAX)

SmInit ==
    /\ i2c = [handles |-> <<>>, open |-> {}, cal_val |-> 0, cal_cmd |-> 0,
              returned |-> [fn |-> "none", raised |-> FALSE, value |-> 0], calls |-> 0]
    /\ AdapterNotRun
    /\ installer = NotRun
    /\ nexusInstaller = NotRun
    /\ uninstaller = NotRun
    /\ hvac = NotRun

get_0_10v ==
    /\ i2c.calls < MaxCalls
    /\ \E stack_level \in {0, 8}, channel \in {-1, 0, 7, 8}, env \in BusOutcomes :
          i2c' = ReadInput(i2c, "get_0_10v", 10000, stack_level, channel, env)
    /\ UNCHANGED notI2c

get_4_20ma ==
    /\ i2c.calls < MaxCalls
    /\ \E stack_level \in {0, 8}, channel \in {-1, 0, 7, 8}, env \in BusOutcomes :
          i2c' = ReadInput(i2c, "get_4_20ma", 20000, stack_level, channel, env)
    /\ UNCHANGED notI2c

\* calibrate_channel: the calibration value is written, then the command
calibrate_channel ==
    /\ i2c.calls < MaxCalls
    /\ \E channel \in {-1, 0, 7, 8}, cal_value \in {-1, 5000, 10001}, env \in BusOutcomes :
          i2c' =
             IF channel < 0 \/ channel >= ANALOG_IN_CH_NO
             THEN Leaves(i2c, "calibrate_channel", TRUE, "Invalid channel")
             ELSE IF cal_value < 0 \/ cal_value > 10000
             THEN Leaves(i2c, "calibrate_channel", TRUE, "Invalid calibration value")
             ELSE IF env.io = "no bus"
             THEN Leaves(i2c, "calibrate_channel", TRUE, "Failed to calibrate")
             ELSE IF env.io = "first fails"
             THEN Leaves(Opened(i2c, FALSE), "calibrate_channel", TRUE, "Failed to calibrate")
             ELSE IF env.io = "second fails"
             THEN Leaves([Opened(i2c, FALSE) EXCEPT !.cal_val = cal_value],
                         "calibrate_channel", TRUE, "Failed to calibrate")
             ELSE Leaves([Opened(i2c, TRUE) EXCEPT !.cal_val = cal_value,
                                                    !.cal_cmd = channel + 1],
                         "calibrate_channel", FALSE, 0)
    /\ UNCHANGED notI2c

\* test_hat: True when the first channel can be read, False otherwise.
\* The except clause drops the exception, so when the read fails nothing
\* refers to the bus object once test_hat has returned: whether its
\* handle is then closed is up to the interpreter (collected).
test_hat ==
    /\ i2c.calls < MaxCalls
    /\ \E env \in BusOutcomes, collected \in BOOLEAN :
          i2c' = IF env.io = "no bus" THEN Leaves(i2c, "test_hat", FALSE, 0)
                 ELSE IF env.io # "ok" THEN Leaves(Opened(i2c, collected), "test_hat", FALSE, 0)
                 ELSE Leaves(Opened(i2c, TRUE), "test_hat", FALSE, 1)
    /\ UNCHANGED notI2c

SmNext ==
    \/ get_0_10v
    \/ get_4_20ma
    \/ calibrate_channel
    \/ test_hat

SmSpec == SmInit /\ [][SmNext]_vars

\* the last call was rejected for its channel; the handles it opened
ChannelRejected == i2c.returned.raised /\ i2c.returned.value = "Invalid channel"
OpenedByCall == {h \in DOMAIN i2c.handles : i2c.handles[h] = i2c.calls}

C30_HandleClosedOnSuccessOnly ==
    LET ret == i2c.returned
        rejected == ret.raised /\ ret.value \in {"Invalid channel", "Invalid stack level",
                                                 "Invalid calibration value"}
        succeeded == /\ ret.fn # "none"
                     /\ ~ret.raised
                     /\ ret.fn = "test_hat" => ret.value = 1
    IN /\ rejected => OpenedByCall = {}
       /\ succeeded => (Cardinality(OpenedByCall) = 1 /\ OpenedByCall \cap i2c.open = {})
       /\ (ret.fn \notin {"none", "test_hat"} /\ ~rejected /\ ~succeeded)
             => OpenedByCall \subseteq i2c.open
       /\ Cardinality(OpenedByCall) <= 1
       /\ i2c.open \subseteq DOMAIN i2c.handles

====
